---- MODULE Spec2Model ----
(***************************************************************************)
(* A model of CraccTracc's parsing and classification core:                *)
(*   - modules/vkx_parser.py  unpack_vkx    (binary record decoder),       *)
(*                            quatern2euler, vkx_df                        *)
(*   - modules/gpx_parser.py  unpack_gpx, calc_sog_cog, gpx_df             *)
(*   - modules/parser.py      trim_race, parse                            *)
(*   - modules/manoeuvres.py  fix_heading, apply_PoS, identify_manoeuvres  *)
(*   - modules/wind.py        angular_interpolation, filter_wind_data,     *)
(*                            get_wind_data, bom_twd, add_twd              *)
(*   - __main__.py            main (parse, add_twd, manoeuvres)            *)
(* Each component has its own specification (SpecVkx, SpecGpx, SpecParse,  *)
(* SpecMan, SpecDetect, SpecInterp, SpecFilter, SpecCache, SpecEuler,      *)
(* SpecMain); Spec is their union.                                         *)
(***************************************************************************)
EXTENDS Integers, Sequences, FiniteSets, TLC

VARIABLES
    mode,         \* which component this behaviour exercises
    \* ---- unpack_vkx ----
    layout,       \* the records the device wrote: <<[tag, fields], ...>>
    file,         \* the bytes of the .vkx file
    pos,          \* f's read position (bytes consumed so far)
    vkx_pc,       \* "loop" | "returned" | "error"
    gps_data,     \* list of decoded tag-0x02 records
    course_data,  \* dict: row key -> list of decoded records
    vkx_log,      \* row keys reported by log.warning
    tagReads,     \* history: positions (1-based) of the bytes read as row keys
    vkx_ret,      \* what the caller receives: [returned, gps, course]
    \* ---- unpack_gpx ----
    points,       \* the trkpt elements of the .gpx file, in document order
    gpx_i,        \* number of track points the loop has taken
    gpx_data,     \* unpack_gpx.gps_data
    gpx_pc,       \* "idle" | "loop" | "returned" | "error"
    gpx_ret,      \* what unpack_gpx returns: [returned, data]
    \* ---- parse ----
    source_ext,   \* ".gpx" | ".vkx"
    race_start,   \* parse's race_start argument: None or an integer
    race_end,     \* parse's race_end argument: None or an integer
    optimize,     \* the interpreter runs with -O: assert statements are not executed
    unpacked,     \* what unpack_vkx returned for the source: [gps, course]
    df,           \* parse's df: a sequence of rows; empty before it is built
    course_in,    \* parse's local course_data; Unbound when source_ext is ".gpx"
    parse_pc,     \* "idle" | "unpack" | "convert" | "check" | "returned" | "error"
    error,        \* the exception that left parse, None if none
    trim,         \* trim_race's locals at its end ([ran |-> FALSE, ...] before)
    \* ---- manoeuvres (one row of the df) ----
    heading,      \* df["heading"]: degrees clockwise from north
    true_wind,    \* df["true_wind_angle"]: the true wind direction in degrees
    rel_heading,  \* df["rel_heading"]: the true wind angle
    PoS,          \* df["PoS"]
    tack,         \* df["tack"]
    man_pc,       \* "idle" | "start" | "twa" | "classified"
    \* ---- manoeuvres (the whole df) ----
    man_in,       \* the df handed to manoeuvres: rows [heading, true_wind_angle]
    man_df,       \* the df as manoeuvres builds it, one record per row
    det_pc,       \* "idle" | "start" | "twa" | "PoS" | "diff" | "returned"
    \* ---- wind.angular_interpolation ----
    xp,           \* times of the wind samples, increasing
    fp,           \* directions of the wind samples, degrees
    interp_x,     \* x: the time at which the direction is evaluated
    interp_vals,  \* the value for x as the function computes it: [num, den, err]
    interp_pc,    \* "idle" | "start" | "interp" | "mod" | "returned"
    \* ---- wind.filter_wind_data ----
    df_utc,       \* df["UTC"]: the times of the track, milliseconds
    resp_data,    \* the points of the response: rows [x, y, direction]
    filter_i,     \* number of points the loop has taken
    wind_data,    \* filter_wind_data.wind_data: rows [time, tws, twd]
    filter_pc,    \* "idle" | "loop" | "returned"
    \* ---- wind.get_wind_data, wind.bom_twd, wind.add_twd ----
    dir_exists,   \* the directory data/wind exists
    files,        \* data/wind/<date>.json for each date: its content or NoFile
    wcall,        \* the call in progress or last made: [caller, date, track, twd]
    wind_pc,      \* "idle" | "ready" | "open" | "got" | "raised"
    wresult,      \* what the last get_wind_data call gave: [kind, data]
    requests,     \* history: network requests made so far, [date, call, ok] each
    ncalls,       \* history: number of calls made so far
    twd_out,      \* what add_twd gave its caller: [kind, twd, warned]
    \* ---- vkx_df: quatern2euler and the columns hdg, roll, pitch ----
    quats,        \* df[["Q_w", "Q_x", "Q_y", "Q_z"]]: one quaternion per row
    euler_angles, \* what quatern2euler returned: <<rolls, pitches, yaws>>, degrees
    attitude,     \* the columns assigned to df: rows [hdg, roll, pitch]
    euler_pc,     \* "idle" | "start" | "converted" | "assigned"
    \* ---- __main__.main ----
    main_pc,      \* "idle" | "parse" | "add_twd" | "manoeuvres" | "done" | "error"
    main_cols,    \* the columns of main's df once add_twd has returned it
    main_err      \* the exception that left main, None if none

vkxVars == <<layout, file, pos, vkx_pc, gps_data, course_data, vkx_log, tagReads, vkx_ret>>
gpxVars == <<points, gpx_i, gpx_data, gpx_pc, gpx_ret>>
parseVars == <<source_ext, race_start, race_end, optimize, unpacked, df, course_in,
               parse_pc, error, trim>>
manVars == <<heading, true_wind, rel_heading, PoS, tack, man_pc>>
detectVars == <<man_in, man_df, det_pc>>
interpVars == <<xp, fp, interp_x, interp_vals, interp_pc>>
filterVars == <<df_utc, resp_data, filter_i, wind_data, filter_pc>>
cacheVars == <<dir_exists, files, wcall, wind_pc, wresult, requests, ncalls, twd_out>>
windVars == <<interpVars, filterVars, cacheVars>>
eulerVars == <<quats, euler_angles, attitude, euler_pc>>
mainVars == <<main_pc, main_cols, main_err>>
vars == <<mode, vkxVars, gpxVars, parseVars, manVars, detectVars, windVars,
          eulerVars, mainVars>>

None == "None"

\* nothing was returned (yet)
NoReturn == [returned |-> FALSE, gps |-> <<>>, course |-> <<>>]

\* ------------------------------------------------------------------------
\* Python integers.  UNIX millisecond times exceed the checker's integers, so
\* an int is kept as sign and two limbs: value = (-1)^neg * (hi * 10^9 + lo),
\* 0 <= lo < 10^9, and zero is not negative.
\* ------------------------------------------------------------------------
PyInt(h, l) == [none |-> FALSE, neg |-> FALSE, hi |-> h, lo |-> l]
PyNeg(h, l) == [none |-> FALSE, neg |-> TRUE, hi |-> h, lo |-> l]
Zero == PyInt(0, 0)

\* None, where an int may be given
NoInt == [none |-> TRUE, neg |-> FALSE, hi |-> 0, lo |-> 0]

\* a <= b on ints
IntLe(a, b) ==
    LET magLe(x, y) == x.hi < y.hi \/ (x.hi = y.hi /\ x.lo <= y.lo)
    IN  IF a.neg /\ ~b.neg THEN TRUE
        ELSE IF ~a.neg /\ b.neg THEN FALSE
        ELSE IF a.neg THEN magLe(b, a)
        ELSE magLe(a, b)

\* decimal digits of a natural below 2^31
RECURSIVE Digits(_)
Digits(n) == IF n < 10 THEN 1 ELSE 1 + Digits(n \div 10)

\* len(str(v)) for an int v
StrLen(v) ==
    (IF v.neg THEN 1 ELSE 0) + (IF v.hi > 0 THEN Digits(v.hi) + 9 ELSE Digits(v.lo))

\* bool(v) for v an int or None
Truthy(v) == ~v.none /\ v # Zero

\* a UNIX millisecond time of the recorded day: 1698000000000 + l
T(l) == PyInt(1698, l)

\* ------------------------------------------------------------------------
\* Bounds of the model
\* ------------------------------------------------------------------------
MaxRecords == 2      \* records per generated .vkx file
MaxTrunc == 2        \* bytes cut off the end of a generated file
MaxPoints == 3       \* track points per generated .gpx file
MaxRows == 3         \* position records per decoded .vkx file
MaxEvents == 3       \* race timer events per decoded .vkx file

\* ------------------------------------------------------------------------
\* Sequence helpers
\* ------------------------------------------------------------------------
RECURSIVE SumSeq(_)
SumSeq(s) == IF s = <<>> THEN 0 ELSE Head(s) + SumSeq(Tail(s))

RECURSIVE Flatten(_)
Flatten(ss) == IF ss = <<>> THEN <<>> ELSE Head(ss) \o Flatten(Tail(ss))

Zeros(n) == [i \in 1..n |-> 0]

Last(s) == s[Len(s)]

\* ------------------------------------------------------------------------
\* struct module: format strings are sequences of <<repeat count, code>>
\* ------------------------------------------------------------------------
\* struct.calcsize of one format character under "<" (standard sizes, no padding)
CharSize(c) ==
    CASE c = "B" -> 1
      [] c = "x" -> 1
      [] c = "H" -> 2
      [] c = "i" -> 4
      [] c = "f" -> 4
      [] c = "Q" -> 8

\* struct.Struct(fmt).size
StructSize(fmt) == SumSeq([i \in 1..Len(fmt) |-> fmt[i][1] * CharSize(fmt[i][2])])

\* struct.Struct(fmt).unpack(bytes), for Len(bytes) = StructSize(fmt): the tuple of
\* the values, one per non-pad item; a value is kept as its little-endian bytes.
RECURSIVE Unpack(_, _)
Unpack(fmt, bytes) ==
    IF fmt = <<>> THEN <<>>
    ELSE LET n == Head(fmt)[1]
             c == Head(fmt)[2]
             w == CharSize(c)
             rest == Unpack(Tail(fmt), SubSeq(bytes, n * w + 1, Len(bytes)))
         IN  IF c = "x" THEN rest
             ELSE [k \in 1..n |-> SubSeq(bytes, (k - 1) * w + 1, k * w)] \o rest

\* unpack_vkx.format_strings with a Shift Angle format one byte short
format_strings_short ==
    [k \in {255, 254, 2, 3, 4, 5, 6, 8, 10, 1, 7, 14, 32} |->
        CASE k = 255 -> << <<1, "B">>, <<6, "x">> >>
          [] k = 254 -> << <<1, "H">> >>
          [] k = 2   -> << <<1, "Q">>, <<1, "i">>, <<1, "i">>, <<7, "f">> >>
          [] k = 3   -> << <<1, "Q">>, <<1, "f">>, <<1, "i">>, <<1, "i">> >>
          [] k = 4   -> << <<1, "Q">>, <<1, "B">>, <<1, "i">> >>
          [] k = 5   -> << <<1, "Q">>, <<1, "B">>, <<1, "i">>, <<1, "i">> >>
          [] k = 6   -> << <<1, "Q">>, <<1, "B">>, <<1, "f">>, <<1, "f">> >>
          [] k = 8   -> << <<1, "Q">>, <<4, "x">>, <<1, "B">> >>
          [] k = 10  -> << <<1, "Q">>, <<1, "f">>, <<1, "f">> >>
          [] k = 1   -> << <<32, "x">> >>
          [] k = 7   -> << <<12, "x">> >>
          [] k = 14  -> << <<16, "x">> >>
          [] k = 32  -> << <<13, "x">> >>]

\* unpack_vkx.format_strings: row key -> struct format
format_strings ==
    [k \in {255, 254, 2, 3, 4, 5, 6, 8, 10, 1, 7, 14, 32} |->
        CASE k = 255 -> << <<1, "B">>, <<6, "x">> >>                      \* "<B6x"
          [] k = 254 -> << <<1, "H">> >>                                  \* "<H"
          [] k = 2   -> << <<1, "Q">>, <<1, "i">>, <<1, "i">>, <<7, "f">> >>  \* "<Qii7f"
          [] k = 3   -> << <<1, "Q">>, <<1, "f">>, <<1, "i">>, <<1, "i">> >>  \* "<Qfii"
          [] k = 4   -> << <<1, "Q">>, <<1, "B">>, <<1, "i">> >>              \* "<QBi"
          [] k = 5   -> << <<1, "Q">>, <<1, "B">>, <<1, "i">>, <<1, "i">> >>  \* "<QBii"
          [] k = 6   -> << <<1, "Q">>, <<1, "B">>, <<1, "B">>, <<1, "f">>, <<1, "f">> >>  \* "<QBBff"
          [] k = 8   -> << <<1, "Q">>, <<4, "x">>, <<1, "B">> >>              \* "<Q4xB"
          [] k = 10  -> << <<1, "Q">>, <<1, "f">>, <<1, "f">> >>              \* "<Qff"
          [] k = 1   -> << <<32, "x">> >>                                 \* "<32x"
          [] k = 7   -> << <<12, "x">> >>                                 \* "<12x"
          [] k = 14  -> << <<16, "x">> >>                                 \* "<16x"
          [] k = 32  -> << <<13, "x">> >>]                                \* "<13x"

\* row_key_fmt = struct.Struct("<B")
row_key_fmt == << <<1, "B">> >>

\* ------------------------------------------------------------------------
\* The device's side of the format (record table of the file format): for
\* each tag the widths of the fields and of the trailing/embedded reserved
\* bytes, in order.  A pad is [w |-> n, pad |-> TRUE].
\* ------------------------------------------------------------------------
F(w) == [w |-> w, pad |-> FALSE]
P(w) == [w |-> w, pad |-> TRUE]

DeviceTags == {255, 254, 2, 3, 4, 5, 6, 8, 10, 1, 7, 14, 32}

DeviceLayout(tag) ==
    CASE tag = 255 -> <<F(1), P(6)>>
      [] tag = 254 -> <<F(2)>>
      [] tag = 2   -> <<F(8), F(4), F(4), F(4), F(4), F(4), F(4), F(4), F(4), F(4)>>
      [] tag = 3   -> <<F(8), F(4), F(4), F(4)>>
      [] tag = 4   -> <<F(8), F(1), F(4)>>
      [] tag = 5   -> <<F(8), F(1), F(4), F(4)>>
      [] tag = 6   -> <<F(8), F(1), F(1), F(4), F(4)>>
      [] tag = 8   -> <<F(8), P(4), F(1)>>
      [] tag = 10  -> <<F(8), F(4), F(4)>>
      [] tag = 1   -> <<P(32)>>
      [] tag = 7   -> <<P(12)>>
      [] tag = 14  -> <<P(16)>>
      [] tag = 32  -> <<P(13)>>

\* payload length of a record of the device
DeviceLen(tag) == LET l == DeviceLayout(tag) IN SumSeq([i \in 1..Len(l) |-> l[i].w])

\* the field values of the id-th record written: the first field carries id in
\* its low byte, every other byte is 0
DeviceFields(tag, id) ==
    LET l == SelectSeq(DeviceLayout(tag), LAMBDA e : ~e.pad)
    IN  [i \in 1..Len(l) |-> IF i = 1 THEN <<id>> \o Zeros(l[i].w - 1) ELSE Zeros(l[i].w)]

\* the payload bytes the device writes for these field values
RECURSIVE DevicePack(_, _)
DevicePack(l, fields) ==
    IF l = <<>> THEN <<>>
    ELSE IF Head(l).pad THEN Zeros(Head(l).w) \o DevicePack(Tail(l), fields)
         ELSE Head(fields) \o DevicePack(Tail(l), Tail(fields))

\* a tag the decoder's table does not hold, and what may follow it in the file
UnknownTags == {9}
UnknownPayloads == {<<>>, <<2>>, <<0, 254>>}

\* the bytes of one record
RecordBytes(r) ==
    IF r.tag \in DeviceTags
    THEN <<r.tag>> \o DevicePack(DeviceLayout(r.tag), r.fields)
    ELSE <<r.tag>> \o r.raw

\* all record sequences of length n; known records are numbered by position
RECURSIVE Layouts(_)
Layouts(n) ==
    IF n = 0 THEN {<<>>}
    ELSE LET shorter == Layouts(n - 1)
         IN  shorter
             \cup {Append(l, [tag |-> t, fields |-> DeviceFields(t, Len(l) + 1), raw |-> <<>>]) :
                     l \in {s \in shorter : Len(s) = n - 1}, t \in DeviceTags}
             \cup {Append(l, [tag |-> t, fields |-> <<>>, raw |-> p]) :
                     l \in {s \in shorter : Len(s) = n - 1}, t \in UnknownTags, p \in UnknownPayloads}

WellFormed(l) == \A i \in 1..Len(l) : l[i].tag \in DeviceTags

\* ------------------------------------------------------------------------
\* unpack_vkx
\* ------------------------------------------------------------------------
\* parse's course_data before vkx_df assigns it
Unbound == [bound |-> FALSE, dict |-> <<>>]

\* trim_race has not run
NoTrim == [ran |-> FALSE, raised |-> None, len_df |-> 0,
           vkx_race_start |-> Zero, vkx_race_end |-> Zero,
           race_start |-> NoInt, race_end |-> NoInt,
           log |-> {}, race_df |-> <<>>]

VkxIdle ==
    /\ layout = <<>> /\ file = <<>> /\ pos = 0 /\ vkx_pc = "idle"
    /\ gps_data = <<>> /\ course_data = <<>> /\ vkx_log = <<>> /\ tagReads = <<>>
    /\ vkx_ret = NoReturn

GpxIdle ==
    /\ points = <<>> /\ gpx_i = 0 /\ gpx_data = <<>> /\ gpx_pc = "idle"
    /\ gpx_ret = [returned |-> FALSE, data |-> <<>>]

ParseIdle ==
    /\ source_ext = None /\ race_start = NoInt /\ race_end = NoInt /\ optimize = FALSE
    /\ unpacked = NoReturn /\ df = <<>> /\ course_in = Unbound /\ parse_pc = "idle"
    /\ error = None /\ trim = NoTrim

ManIdle ==
    /\ heading = 0 /\ true_wind = 0 /\ rel_heading = 0 /\ PoS = "NaN" /\ tack = "NaN"
    /\ man_pc = "idle"

\* manoeuvres has not been called with a df
DetectIdle ==
    /\ man_in = <<>> /\ man_df = <<>> /\ det_pc = "idle"

\* a float as the model carries it: the rational num / den and, in err, on which
\* side of it the float computed lies (-1 below, 0 equal, 1 above)
Float(num, den, err) == [num |-> num, den |-> den, err |-> err]

InterpIdle ==
    /\ xp = <<>> /\ fp = <<>> /\ interp_x = 0 /\ interp_vals = Float(0, 1, 0)
    /\ interp_pc = "idle"

FilterIdle ==
    /\ df_utc = <<>> /\ resp_data = <<>> /\ filter_i = 0 /\ wind_data = <<>>
    /\ filter_pc = "idle"

\* the dates get_wind_data is called for; bom_twd's date is one of them
Dates == {"2023-10-21", "2023-10-28"}

\* data/wind/<date>.json does not exist
NoFile == "NoFile"

NoCall == [caller |-> "none", date |-> "none", track |-> "none", twd |-> 0]
NoResult == [kind |-> "none", data |-> "none"]
NoTwd == [kind |-> "none", twd |-> 0, warned |-> FALSE]

CacheIdle ==
    /\ dir_exists = FALSE /\ files = [d \in Dates |-> NoFile]
    /\ wcall = NoCall /\ wind_pc = "idle" /\ wresult = NoResult
    /\ requests = <<>> /\ ncalls = 0 /\ twd_out = NoTwd

WindIdle == InterpIdle /\ FilterIdle /\ CacheIdle

\* vkx_df has not been called
EulerIdle ==
    /\ quats = <<>> /\ euler_angles = <<>> /\ attitude = <<>> /\ euler_pc = "idle"

\* main has not been called
MainIdle ==
    /\ main_pc = "idle" /\ main_cols = {} /\ main_err = None

InitVkx ==
    /\ mode = "vkx"
    /\ EulerIdle /\ MainIdle
    /\ GpxIdle /\ ParseIdle /\ ManIdle /\ DetectIdle /\ WindIdle
    /\ layout \in Layouts(MaxRecords)
    /\ \E cut \in 0..MaxTrunc :
          LET bytes == Flatten([i \in 1..Len(layout) |-> RecordBytes(layout[i])])
          IN  /\ cut <= Len(bytes)
              /\ file = SubSeq(bytes, 1, Len(bytes) - cut)
    /\ pos = 0
    /\ vkx_pc = "loop"
    /\ gps_data = <<>>
    /\ course_data = <<>>
    /\ vkx_log = <<>>
    /\ tagReads = <<>>
    /\ vkx_ret = NoReturn

\* f.read(n): the next n bytes, fewer at the end of the file
Read(n) == SubSeq(file, pos + 1, IF pos + n <= Len(file) THEN pos + n ELSE Len(file))

\* packed_key is empty: break, then return gps_data, course_data
VkxEof ==
    /\ mode = "vkx" /\ vkx_pc = "loop"
    /\ Read(StructSize(row_key_fmt)) = <<>>
    /\ vkx_pc' = "returned"
    /\ vkx_ret' = [returned |-> TRUE, gps |-> gps_data, course |-> course_data]
    /\ UNCHANGED <<detectVars, windVars, gpxVars, parseVars, manVars, mode, eulerVars, mainVars, layout, file, pos, gps_data, course_data, vkx_log, tagReads>>

\* the row key is not in format_strings: log.warning and continue
VkxUnknownKey ==
    /\ mode = "vkx" /\ vkx_pc = "loop"
    /\ LET packed_key == Read(StructSize(row_key_fmt))
       IN  /\ packed_key # <<>>
           /\ LET row_key == Unpack(row_key_fmt, packed_key)[1][1]
              IN  /\ row_key \notin DOMAIN format_strings
                  /\ vkx_log' = Append(vkx_log, row_key)
           /\ pos' = pos + Len(packed_key)
           /\ tagReads' = Append(tagReads, pos + 1)
    /\ UNCHANGED <<detectVars, windVars, gpxVars, parseVars, manVars, mode, eulerVars, mainVars, layout, file, vkx_pc, gps_data, course_data, vkx_ret>>

\* VkxTruncated with the short read taken for the end of the file
VkxTruncated_AsEof ==
    /\ mode = "vkx" /\ vkx_pc = "loop"
    /\ LET packed_key == Read(StructSize(row_key_fmt))
       IN  /\ packed_key # <<>>
           /\ LET row_key == Unpack(row_key_fmt, packed_key)[1][1]
              IN  /\ row_key \in DOMAIN format_strings
                  /\ Len(file) - (pos + 1) < StructSize(format_strings[row_key])
           /\ pos' = Len(file)
           /\ tagReads' = Append(tagReads, pos + 1)
    /\ vkx_pc' = "returned"
    /\ vkx_ret' = [returned |-> TRUE, gps |-> gps_data, course |-> course_data]
    /\ UNCHANGED <<detectVars, windVars, gpxVars, parseVars, manVars, mode, eulerVars, mainVars, layout, file, gps_data, course_data, vkx_log>>

\* f.read returns fewer bytes than format_string.size: unpack raises struct.error,
\* which leaves unpack_vkx (nothing is returned)
VkxTruncated ==
    /\ mode = "vkx" /\ vkx_pc = "loop"
    /\ LET packed_key == Read(StructSize(row_key_fmt))
       IN  /\ packed_key # <<>>
           /\ LET row_key == Unpack(row_key_fmt, packed_key)[1][1]
              IN  /\ row_key \in DOMAIN format_strings
                  /\ Len(file) - (pos + 1) < StructSize(format_strings[row_key])
           /\ pos' = Len(file)
           /\ tagReads' = Append(tagReads, pos + 1)
    /\ vkx_pc' = "error"
    /\ UNCHANGED <<detectVars, windVars, gpxVars, parseVars, manVars, mode, eulerVars, mainVars, layout, file, gps_data, course_data, vkx_log, vkx_ret>>

\* VkxRecord with course_data[row_key] replaced by [data] on every record
VkxRecord_Overwrite ==
    /\ mode = "vkx" /\ vkx_pc = "loop"
    /\ LET packed_key == Read(StructSize(row_key_fmt))
       IN  /\ packed_key # <<>>
           /\ LET row_key == Unpack(row_key_fmt, packed_key)[1][1]
              IN  /\ row_key \in DOMAIN format_strings
                  /\ LET format_string == format_strings[row_key]
                         size == StructSize(format_string)
                     IN  /\ Len(file) - (pos + 1) >= size
                         /\ LET data == Unpack(format_string, SubSeq(file, pos + 2, pos + 1 + size))
                            IN  IF row_key = 2
                                THEN /\ gps_data' = Append(gps_data, data)
                                     /\ UNCHANGED course_data
                                ELSE IF row_key \in {4, 5, 6, 10}
                                THEN /\ course_data' =
                                          [k \in DOMAIN course_data \cup {row_key} |->
                                              IF k = row_key THEN <<data>> ELSE course_data[k]]
                                     /\ UNCHANGED gps_data
                                ELSE UNCHANGED <<gps_data, course_data>>
                         /\ pos' = pos + 1 + size
           /\ tagReads' = Append(tagReads, pos + 1)
    /\ UNCHANGED <<detectVars, windVars, gpxVars, parseVars, manVars, mode, eulerVars, mainVars, layout, file, vkx_pc, vkx_log, vkx_ret>>

\* a known row key with its whole payload: unpack and route
VkxRecord ==
    /\ mode = "vkx" /\ vkx_pc = "loop"
    /\ LET packed_key == Read(StructSize(row_key_fmt))
       IN  /\ packed_key # <<>>
           /\ LET row_key == Unpack(row_key_fmt, packed_key)[1][1]
              IN  /\ row_key \in DOMAIN format_strings
                  /\ LET format_string == format_strings[row_key]
                         size == StructSize(format_string)
                     IN  /\ Len(file) - (pos + 1) >= size
                         /\ LET data == Unpack(format_string, SubSeq(file, pos + 2, pos + 1 + size))
                            IN  IF row_key = 2
                                THEN /\ gps_data' = Append(gps_data, data)
                                     /\ UNCHANGED course_data
                                ELSE IF row_key \in {4, 5, 6, 10}
                                THEN /\ course_data' =
                                          IF row_key \in DOMAIN course_data
                                          THEN [course_data EXCEPT ![row_key] = Append(@, data)]
                                          ELSE [k \in DOMAIN course_data \cup {row_key} |->
                                                  IF k = row_key THEN <<data>> ELSE course_data[k]]
                                     /\ UNCHANGED gps_data
                                ELSE UNCHANGED <<gps_data, course_data>>
                         /\ pos' = pos + 1 + size
           /\ tagReads' = Append(tagReads, pos + 1)
    /\ UNCHANGED <<detectVars, windVars, gpxVars, parseVars, manVars, mode, eulerVars, mainVars, layout, file, vkx_pc, vkx_log, vkx_ret>>

NextVkx == VkxEof \/ VkxUnknownKey \/ VkxTruncated \/ VkxRecord

SpecVkx == InitVkx /\ [][NextVkx]_vars

\* ------------------------------------------------------------------------
\* Properties of unpack_vkx
\* ------------------------------------------------------------------------
\* the file holds every byte the device wrote
Untruncated == file = Flatten([i \in 1..Len(layout) |-> RecordBytes(layout[i])])

\* the records of l with a tag in tags, as their field tuples, in order
RECURSIVE FieldsOf(_, _)
FieldsOf(l, tags) ==
    IF l = <<>> THEN <<>>
    ELSE IF Head(l).tag \in tags THEN <<Head(l).fields>> \o FieldsOf(Tail(l), tags)
         ELSE FieldsOf(Tail(l), tags)

\* how many records the streams hold
Routed == Len(gps_data) + SumSeq([i \in 1..4 |->
              LET k == <<4, 5, 6, 10>>[i]
              IN  IF k \in DOMAIN course_data THEN Len(course_data[k]) ELSE 0])

\* C1 (as claimed): a byte read as a tag that is not in the record table ends the
\* decoding with an error; no later byte is read as a tag.
C1_FailFast ==
    mode = "vkx" =>
        \A i \in 1..Len(tagReads) :
            file[tagReads[i]] \notin DeviceTags => (i = Len(tagReads) /\ vkx_pc = "error")

\* C2: when the file ends after a known tag byte and before the end of that tag's
\* payload, unpack_vkx ends with an error, the streams hold only the records read
\* whole before it, and the caller receives nothing; unpack_vkx returns only with
\* the end of the file found where a tag byte is read.
C2_TruncatedIsFatal ==
    mode = "vkx" =>
        /\ tagReads # <<>> =>
              LET p == Last(tagReads)
              IN  (file[p] \in DeviceTags /\ Len(file) - p < DeviceLen(file[p])) =>
                      /\ vkx_pc = "error"
                      /\ vkx_ret = NoReturn
                      /\ Routed = Cardinality({i \in 1..(Len(tagReads) - 1) :
                                                 file[tagReads[i]] \in {2, 4, 5, 6, 10}})
        /\ vkx_pc = "returned" =>
              /\ pos = Len(file)
              /\ vkx_ret = [returned |-> TRUE, gps |-> gps_data, course |-> course_data]
              /\ tagReads # <<>> =>
                    LET p == Last(tagReads)
                    IN  IF file[p] \in DeviceTags THEN p + DeviceLen(file[p]) = Len(file)
                        ELSE p = Len(file)

C2_Witness ==
    /\ mode = "vkx" /\ vkx_pc = "error"
    /\ Len(tagReads) = 2
    /\ file[tagReads[1]] = 2 /\ file[tagReads[2]] = 4
    /\ Len(file) - tagReads[2] = DeviceLen(4) - 1
    /\ Len(gps_data) = 1

\* C3: for a well-formed, whole file unpack_vkx returns the tag-0x02 records in
\* file order as the position list, under each of 0x04, 0x05, 0x06, 0x0A the
\* records of that tag in file order (a key only when there is such a record),
\* and nothing else.
C3_RoutesInOrder ==
    (mode = "vkx" /\ WellFormed(layout) /\ Untruncated /\ vkx_pc = "returned") =>
        /\ vkx_ret.returned
        /\ vkx_ret.gps = FieldsOf(layout, {2})
        /\ DOMAIN vkx_ret.course = {k \in {4, 5, 6, 10} : FieldsOf(layout, {k}) # <<>>}
        /\ \A k \in DOMAIN vkx_ret.course : vkx_ret.course[k] = FieldsOf(layout, {k})

C3_Witness ==
    /\ mode = "vkx" /\ WellFormed(layout) /\ Untruncated /\ vkx_pc = "returned"
    /\ Len(layout) = 2 /\ layout[1].tag = 4 /\ layout[2].tag = 4
    /\ Len(vkx_ret.course[4]) = 2

\* C4: the payload lengths as claimed
C4_ClaimedLen ==
    [t \in DeviceTags |->
        CASE t = 255 -> 7  [] t = 254 -> 2  [] t = 2 -> 44 [] t = 3 -> 20
          [] t = 4 -> 13   [] t = 5 -> 17   [] t = 6 -> 18 [] t = 8 -> 13
          [] t = 10 -> 16  [] t = 1 -> 32   [] t = 7 -> 12 [] t = 14 -> 16
          [] t = 32 -> 13]

\* C4: decoding a well-formed, whole file, the i-th byte read as a tag is the tag
\* of the i-th record, found one tag byte plus the claimed payload length after the
\* previous one; the read position is then past that record; no error occurs and
\* the loop ends at the end of the file with every record read.
C4_ConsumesExactly ==
    (mode = "vkx" /\ WellFormed(layout) /\ Untruncated) =>
        LET start(i) == SumSeq([j \in 1..(i - 1) |-> 1 + C4_ClaimedLen[layout[j].tag]])
        IN  /\ Len(tagReads) <= Len(layout)
            /\ \A i \in 1..Len(tagReads) :
                  /\ tagReads[i] = start(i) + 1
                  /\ file[tagReads[i]] = layout[i].tag
            /\ pos = start(Len(tagReads) + 1)
            /\ vkx_pc # "error"
            /\ vkx_log = <<>>
            /\ vkx_pc = "returned" => (pos = Len(file) /\ Len(tagReads) = Len(layout))

C4_Witness ==
    /\ mode = "vkx" /\ WellFormed(layout) /\ Untruncated /\ vkx_pc = "returned"
    /\ Len(layout) = 2 /\ layout[1].tag = 6 /\ layout[2].tag = 2
    /\ tagReads = <<1, 20>> /\ pos = 64

\* ------------------------------------------------------------------------
\* unpack_gpx
\* ------------------------------------------------------------------------
\* The time child of a track point, as point.find gives it: absent (None), or an
\* element with a number of child elements and a text: "None" (no text),
\* "garbage" (not ISO 8601) or "iso" (an ISO 8601 time).
NoElement == [present |-> FALSE, children |-> 0, text |-> None]

TimeElements ==
    {NoElement} \cup [present : {TRUE}, children : {0, 1}, text : {None, "garbage", "iso"}]

\* the track points of a file: point i has lat/lon i and, where its time text is
\* ISO 8601, the time 1000 * i ms
RECURSIVE PointSeqs(_)
PointSeqs(n) ==
    IF n = 0 THEN {<<>>}
    ELSE LET shorter == PointSeqs(n - 1)
         IN  shorter \cup
             {Append(ps, [time |-> e, lat |-> Len(ps) + 1, lon |-> Len(ps) + 1,
                          ms |-> 1000 * (Len(ps) + 1)]) :
                 ps \in {q \in shorter : Len(q) = n - 1}, e \in TimeElements}

\* bool(element) of xml.etree.ElementTree: None is false, an element is true iff
\* it has child elements
ElementBool(element) == element.present /\ element.children > 0

\* the loop body up to the check of time: [raises, time]
PointTime(point) ==
    LET element == point.time
    IN  IF ElementBool(element)
        THEN IF element.text # None
             THEN IF element.text = "iso"
                  THEN [raises |-> FALSE, time |-> point.ms]
                  ELSE [raises |-> TRUE, time |-> 0]     \* fromisoformat: ValueError
             ELSE [raises |-> FALSE, time |-> 0]
        ELSE [raises |-> FALSE, time |-> 0]

InitGpx ==
    /\ mode = "gpx"
    /\ EulerIdle /\ MainIdle
    /\ VkxIdle /\ ParseIdle /\ ManIdle /\ DetectIdle /\ WindIdle
    /\ points \in PointSeqs(MaxPoints)
    /\ gpx_i = 0 /\ gpx_data = <<>> /\ gpx_pc = "loop"
    /\ gpx_ret = [returned |-> FALSE, data |-> <<>>]

\* one track point whose time was extracted: append (time, lat, lon)
GpxPoint ==
    /\ gpx_pc = "loop" /\ gpx_i < Len(points)
    /\ LET point == points[gpx_i + 1]
           t == PointTime(point)
       IN  /\ ~t.raises /\ t.time # 0
           /\ gpx_data' = Append(gpx_data, <<t.time, point.lat, point.lon>>)
    /\ gpx_i' = gpx_i + 1
    /\ UNCHANGED <<detectVars, windVars, manVars, mode, eulerVars, mainVars, vkxVars, parseVars, points, gpx_pc, gpx_ret>>

\* one track point whose time is 0 or whose text fromisoformat rejects: ValueError
GpxPointRaise ==
    /\ gpx_pc = "loop" /\ gpx_i < Len(points)
    /\ LET t == PointTime(points[gpx_i + 1])
       IN  t.raises \/ t.time = 0
    /\ gpx_i' = gpx_i + 1
    /\ gpx_pc' = "error"
    /\ UNCHANGED <<detectVars, windVars, manVars, mode, eulerVars, mainVars, vkxVars, parseVars, points, gpx_data, gpx_ret>>

\* the loop is over: return gps_data
GpxReturn ==
    /\ gpx_pc = "loop" /\ gpx_i = Len(points)
    /\ gpx_pc' = "returned"
    /\ gpx_ret' = [returned |-> TRUE, data |-> gpx_data]
    /\ UNCHANGED <<detectVars, windVars, manVars, mode, eulerVars, mainVars, vkxVars, parseVars, points, gpx_i, gpx_data>>

NextGpx == GpxPoint \/ GpxPointRaise \/ GpxReturn

SpecGpx == InitGpx /\ [][NextGpx]_vars

\* ------------------------------------------------------------------------
\* trim_race
\* ------------------------------------------------------------------------
\* the loop over course_data[4] with only the first RACE_START kept
ExtractWindow_FirstStart(events, start, end) ==
    LET RECURSIVE go(_, _, _)
        go(ev, s, e) ==
            IF ev = <<>> THEN <<s, e>>
            ELSE LET utc == Head(ev)[1]
                     code == Head(ev)[2]
                 IN  IF code = 3 /\ s = Zero THEN go(Tail(ev), utc, e)
                     ELSE IF code = 4 THEN go(Tail(ev), s, utc)
                     ELSE go(Tail(ev), s, e)
    IN  go(events, start, end)

\* the loop over course_data[4]: <<vkx_race_start, vkx_race_end>> after it
ExtractWindow(events, start, end) ==
    LET RECURSIVE go(_, _, _)
        go(ev, s, e) ==
            IF ev = <<>> THEN <<s, e>>
            ELSE LET utc == Head(ev)[1]
                     code == Head(ev)[2]
                 IN  IF code = 3 THEN go(Tail(ev), utc, e)
                     ELSE IF code = 4 THEN go(Tail(ev), s, utc)
                     ELSE go(Tail(ev), s, e)
    IN  go(events, start, end)

\* df[df["UTC"].between(left, right)]
Between(rows, left, right) ==
    SelectSeq(rows, LAMBDA r : IntLe(left, r.UTC) /\ IntLe(r.UTC, right))

\* trim_race(log, df, course_data, race_start, race_end): its locals at the end
TrimRace(rows, cd, rs, re) ==
    IF 4 \notin DOMAIN cd
    THEN [ran |-> TRUE, raised |-> "KeyError", len_df |-> Len(rows), vkx_race_start |-> Zero,
          vkx_race_end |-> PyInt(0, Len(rows)), race_start |-> rs, race_end |-> re,
          log |-> {}, race_df |-> <<>>]
    ELSE LET len_df == PyInt(0, Len(rows))
             w == ExtractWindow(cd[4], Zero, len_df)
             start == IF rs.none THEN w[1] ELSE rs
             end == IF re.none THEN w[2] ELSE re
         IN  [ran |-> TRUE, raised |-> None, len_df |-> Len(rows),
              vkx_race_start |-> w[1], vkx_race_end |-> w[2],
              race_start |-> start, race_end |-> end,
              log |-> (IF start = Zero THEN {"start failed"} ELSE {})
                      \cup (IF w[2] = len_df THEN {"end failed"}
                            ELSE IF w[1] # Zero THEN {"extracted"} ELSE {}),
              race_df |-> Between(rows, start, end)]

\* ------------------------------------------------------------------------
\* parse
\* ------------------------------------------------------------------------
\* the race_start / race_end arguments tried
RaceStarts == {NoInt, Zero, PyInt(0, 5), T(15), PyNeg(100, 0)}
RaceEnds == {NoInt, T(25), PyInt(16984, 0)}

\* what unpack_vkx may have returned: n position records at T(10), T(20), ... and
\* race timer events (utc, code, timer) at T(5), T(15), ...; course_data has the
\* key 4 only when there is an event
RECURSIVE EventSeqs(_)
EventSeqs(n) ==
    IF n = 0 THEN {<<>>}
    ELSE LET shorter == EventSeqs(n - 1)
         IN  shorter \cup
             {Append(ev, <<T(10 * Len(ev) + 5), code, 0>>) :
                 ev \in {q \in shorter : Len(q) = n - 1}, code \in 0..4}

Unpacked ==
    {[returned |-> TRUE,
      gps |-> [i \in 1..n |-> [UTC |-> T(10 * i), id |-> i]],
      course |-> IF ev = <<>> THEN <<>> ELSE [k \in {4} |-> ev]] :
        n \in 0..MaxRows, ev \in EventSeqs(MaxEvents)}

InitParse ==
    /\ mode = "parse"
    /\ EulerIdle /\ MainIdle
    /\ VkxIdle /\ ManIdle /\ DetectIdle /\ WindIdle
    /\ source_ext \in {".gpx", ".vkx"}
    /\ IF source_ext = ".gpx"
       THEN /\ points \in PointSeqs(MaxPoints) \ {<<>>}
            /\ gpx_pc = "loop"
            /\ unpacked = NoReturn
            /\ optimize \in BOOLEAN
            /\ \E args \in {<<NoInt, NoInt>>, <<PyInt(0, 5), NoInt>>, <<T(15), T(25)>>} :
                  race_start = args[1] /\ race_end = args[2]
       ELSE /\ points = <<>>
            /\ gpx_pc = "idle"
            /\ unpacked \in Unpacked
            /\ optimize = FALSE
            /\ race_start \in RaceStarts
            /\ race_end \in RaceEnds
    /\ gpx_i = 0 /\ gpx_data = <<>> /\ gpx_ret = [returned |-> FALSE, data |-> <<>>]
    /\ df = <<>> /\ course_in = Unbound /\ parse_pc = "unpack"
    /\ error = None /\ trim = NoTrim

\* gpx_df: pd.DataFrame(gps_data) with the index 0..n-1
GpxFrame(data) ==
    [i \in 1..Len(data) |-> [idx |-> i - 1, UTC |-> PyInt(0, data[i][1]),
                             lat |-> data[i][2], lon |-> data[i][3]]]

\* Series.shift(): the first row has no predecessor, its shifted value is NaN
NaN == 0

\* a value the geodesic inverse gives for the leg from one point to another
Geo(from, to) == [from |-> from, to |-> to]

\* a value decoded from the device's record
Device == [from |-> -1, to |-> -1]

\* "x is float" for a value x of the dict Geodesic.Inverse gives: x is a float
\* object, never the type object float
IsFloatType(x) == FALSE

\* calc_distance returns (does not raise AssertionError): both asserts hold, or
\* the interpreter was started with -O and does not execute them
CalcDistanceReturns(lat1, lon1, lat2, lon2) ==
    LET g == [s12 |-> Geo(lat1, lat2), azi1 |-> Geo(lat1, lat2)]
    IN  optimize \/ (IsFloatType(g.s12) /\ IsFloatType(g.azi1))

\* calc_sog_cog and gpx_df's hdg column, when no assert fails: row i gets the
\* delta (UTC.diff(), 0 filled in for the first row), dist and cog of the geodesic
\* from row i-1 (NaN coordinates for the first row) and sog = dist / delta
CalcSogCog(rows) ==
    [i \in 1..Len(rows) |->
        LET prev == IF i = 1 THEN NaN ELSE rows[i - 1].lat
            delta == IF i = 1 THEN 0 ELSE rows[i].UTC.lo - rows[i - 1].UTC.lo
            geo == Geo(prev, rows[i].lat)
        IN  [idx |-> rows[i].idx, UTC |-> rows[i].UTC, lat |-> rows[i].lat, lon |-> rows[i].lon,
             sog |-> [dist |-> geo, delta |-> delta, filled |-> i = 1, knots |-> FALSE],
             cog |-> geo, hdg |-> geo,
             columns |-> {"UTC", "lat", "lon", "cog", "sog", "hdg"}]]

\* vkx_df: pd.DataFrame(gps_data) with the index 0..n-1
VkxFrame(data) ==
    [i \in 1..Len(data) |-> [idx |-> i - 1, UTC |-> data[i].UTC, lat |-> data[i].id,
                             lon |-> data[i].id,
                             sog |-> [dist |-> Device, delta |-> 1, filled |-> FALSE,
                                      knots |-> FALSE],
                             cog |-> Device, hdg |-> Device,
                             columns |-> {"UTC", "lat", "lon", "sog", "cog", "alt",
                                          "hdg", "roll", "pitch"}]]

sig_figs == 4

\* fix_rounding: the columns it rounds, each with the number of decimals:
\* sog, cog and hdg of any df; alt, roll and pitch as well if the df has alt
Rounding(columns) ==
    {<<"sog", sig_figs>>, <<"cog", sig_figs>>, <<"hdg", sig_figs>>}
        \cup IF "alt" \in columns
             THEN {<<"alt", 1>>, <<"roll", sig_figs>>, <<"pitch", sig_figs>>}
             ELSE {}

\* sog2knots, add_twd(twd), fix_rounding on every row
Convert(rows, twd) ==
    [i \in 1..Len(rows) |->
        [idx |-> rows[i].idx, UTC |-> rows[i].UTC, lat |-> rows[i].lat, lon |-> rows[i].lon,
         sog |-> [rows[i].sog EXCEPT !.knots = TRUE], cog |-> rows[i].cog, hdg |-> rows[i].hdg,
         twd |-> twd,
         columns |-> rows[i].columns \cup {"twd"},
         rounded |-> Rounding(rows[i].columns)]]

\* df.loc[1:]: the rows whose index label is at least 1
LocFrom1(rows) == SelectSeq(rows, LAMBDA r : r.idx >= 1)

\* parse runs on its own or as the first call of main
ParseModes == {"parse", "main"}

\* unpack_gpx raised: the ValueError leaves gpx_df and parse
ParseGpxRaise ==
    /\ mode \in ParseModes /\ parse_pc = "unpack" /\ source_ext = ".gpx"
    /\ gpx_pc = "error"
    /\ parse_pc' = "error"
    /\ error' = "ValueError"
    /\ UNCHANGED <<detectVars, windVars, manVars, mode, eulerVars, mainVars, vkxVars, gpxVars, source_ext, race_start, race_end, optimize,
                   unpacked, df, course_in, trim>>

\* gpx_df after unpack_gpx returned: calc_sog_cog calls calc_distance for every row
ParseGpxDf ==
    /\ mode \in ParseModes /\ parse_pc = "unpack" /\ source_ext = ".gpx"
    /\ gpx_pc = "returned"
    /\ LET rows == GpxFrame(gpx_ret.data)
       IN  IF \E i \in 1..Len(rows) :
                 ~CalcDistanceReturns(IF i = 1 THEN NaN ELSE rows[i - 1].lat,
                                     IF i = 1 THEN NaN ELSE rows[i - 1].lon,
                                     rows[i].lat, rows[i].lon)
           THEN /\ parse_pc' = "error"
                /\ error' = "AssertionError"
                /\ UNCHANGED df
           ELSE /\ parse_pc' = "convert"
                /\ df' = CalcSogCog(rows)
                /\ UNCHANGED error
    /\ UNCHANGED <<detectVars, windVars, manVars, mode, eulerVars, mainVars, vkxVars, gpxVars, source_ext, race_start, race_end, optimize,
                   unpacked, course_in, trim>>

\* df, course_data = vkx_df(log, source)
ParseVkxDf ==
    /\ mode \in ParseModes /\ parse_pc = "unpack" /\ source_ext = ".vkx"
    /\ df' = VkxFrame(unpacked.gps)
    /\ course_in' = [bound |-> TRUE, dict |-> unpacked.course]
    /\ parse_pc' = "convert"
    /\ UNCHANGED <<detectVars, windVars, manVars, mode, eulerVars, mainVars, vkxVars, gpxVars, source_ext, race_start, race_end, optimize,
                   unpacked, error, trim>>

\* sog2knots, add_twd, fix_rounding and, for .gpx, df.loc[1:]
\* (twd in hundredths of a degree: 150 and 33.75)
ParseConvert ==
    /\ mode \in ParseModes /\ parse_pc = "convert"
    /\ LET twd == IF source_ext = ".gpx" THEN 15000 ELSE 3375
           rows == Convert(df, twd)
       IN  df' = IF source_ext = ".gpx" THEN LocFrom1(rows) ELSE rows
    /\ parse_pc' = "check"
    /\ UNCHANGED <<detectVars, windVars, manVars, mode, eulerVars, mainVars, vkxVars, gpxVars, source_ext, race_start, race_end, optimize,
                   unpacked, course_in, error, trim>>

\* the checks of race_start and race_end pass
RaceArgsPass ==
    /\ ~(Truthy(race_start) /\ StrLen(race_start) # 13)
    /\ ~(Truthy(race_end) /\ StrLen(race_end) # 13)

\* course_data is not a local: return df
ParseReturnGpx ==
    /\ mode \in ParseModes /\ parse_pc = "check"
    /\ ~course_in.bound
    /\ parse_pc' = "returned"
    /\ UNCHANGED <<detectVars, windVars, manVars, mode, eulerVars, mainVars, vkxVars, gpxVars, source_ext, race_start, race_end, optimize,
                   unpacked, df, course_in, error, trim>>

\* course_data is a local and a check of race_start or race_end raises ValueError
ParseCheckRaise ==
    /\ mode \in ParseModes /\ parse_pc = "check"
    /\ course_in.bound
    /\ ~RaceArgsPass
    /\ parse_pc' = "error"
    /\ error' = "ValueError"
    /\ UNCHANGED <<detectVars, windVars, manVars, mode, eulerVars, mainVars, vkxVars, gpxVars, source_ext, race_start, race_end, optimize,
                   unpacked, df, course_in, trim>>

\* course_data is a local and the checks pass: df = trim_race(...), return df
ParseTrim ==
    /\ mode \in ParseModes /\ parse_pc = "check"
    /\ course_in.bound
    /\ RaceArgsPass
    /\ LET t == TrimRace(df, course_in.dict, race_start, race_end)
       IN  /\ trim' = t
           /\ IF t.raised # None
              THEN /\ parse_pc' = "error"
                   /\ error' = t.raised
                   /\ UNCHANGED df
              ELSE /\ parse_pc' = "returned"
                   /\ df' = t.race_df
                   /\ UNCHANGED error
    /\ UNCHANGED <<detectVars, windVars, manVars, mode, eulerVars, mainVars, vkxVars, gpxVars, source_ext, race_start, race_end, optimize,
                   unpacked, course_in>>

\* gps_data = unpack_gpx(log, source), called by gpx_df
ParseUnpackGpx == mode \in ParseModes /\ parse_pc = "unpack" /\ NextGpx

NextParse ==
    \/ ParseUnpackGpx
    \/ ParseGpxRaise \/ ParseGpxDf \/ ParseVkxDf \/ ParseConvert
    \/ ParseReturnGpx \/ ParseCheckRaise \/ ParseTrim

SpecParse == InitParse /\ [][NextParse]_vars

\* ------------------------------------------------------------------------
\* Properties of trim_race, parse and unpack_gpx
\* ------------------------------------------------------------------------
MaxOf(S) == CHOOSE m \in S : \A x \in S : x <= m

\* C5: the extracted race window starts at the time of the last event with code 3
\* and ends at the time of the last event with code 4; with no such event the
\* start (the end) keeps its initial value, whatever the other events are.
C5_LastStartLastEnd ==
    (mode = "parse" /\ trim.ran /\ trim.raised = None) =>
        LET ev == course_in.dict[4]
            starts == {i \in 1..Len(ev) : ev[i][2] = 3}
            ends == {i \in 1..Len(ev) : ev[i][2] = 4}
        IN  /\ trim.vkx_race_start = IF starts = {} THEN Zero ELSE ev[MaxOf(starts)][1]
            /\ trim.vkx_race_end = IF ends = {} THEN PyInt(0, trim.len_df)
                                   ELSE ev[MaxOf(ends)][1]

C5_Witness ==
    /\ mode = "parse" /\ trim.ran /\ trim.raised = None
    /\ Len(course_in.dict[4]) = 3
    /\ course_in.dict[4][1][2] = 3 /\ course_in.dict[4][2][2] = 3 /\ course_in.dict[4][3][2] = 4
    /\ trim.vkx_race_start = T(15) /\ trim.vkx_race_end = T(25)

\* a race_start or race_end that was given and is not a 13-digit UNIX millisecond
\* value
NotUnixMs(v) == ~v.none /\ ~(~v.neg /\ v.hi >= 1000 /\ v.hi <= 9999)

\* C6 (as claimed): when race_start or race_end is given and is not a 13-digit
\* UNIX millisecond value, parse returns no table, for either input format.
C6_RejectsInvalidWindow ==
    (mode = "parse" /\ (NotUnixMs(race_start) \/ NotUnixMs(race_end))) =>
        parse_pc # "returned"

\* a track point with a time child whose text is an ISO 8601 time
HasParseableTime(point) == point.time.present /\ point.time.text = "iso"

\* C7 (as claimed): unpack_gpx raises iff some track point has no time child with
\* parseable text; otherwise it returns one (utcMs, lat, lon) per track point, in
\* document order.
C7_RaisesIffTimeMissing ==
    (mode = "gpx" /\ gpx_pc \in {"returned", "error"}) =>
        /\ (gpx_pc = "error") <=> (\E i \in 1..Len(points) : ~HasParseableTime(points[i]))
        /\ gpx_pc = "returned" =>
              gpx_ret.data = [i \in 1..Len(points) |->
                                 <<points[i].ms, points[i].lat, points[i].lon>>]

\* C8 (as claimed): for a .gpx track of N >= 1 points, each with a parseable
\* time, parse returns the samples of points 2..N in order, each with the speed
\* derived from its predecessor and a measured time delta.
C8_FirstPointDropped ==
    (/\ mode = "parse" /\ source_ext = ".gpx" /\ parse_pc \in {"returned", "error"}
     /\ \A i \in 1..Len(points) : HasParseableTime(points[i])) =>
        /\ parse_pc = "returned"
        /\ Len(df) = Len(points) - 1
        /\ \A k \in 1..Len(df) :
              /\ df[k].lat = points[k + 1].lat
              /\ df[k].UTC = PyInt(0, points[k + 1].ms)
              /\ ~df[k].sog.filled
              /\ df[k].sog.dist = Geo(points[k].lat, points[k + 1].lat)

\* C20: in the table parse returns, the samples of a VKX source have sog, cog,
\* hdg, roll and pitch rounded to 4 decimals and alt to 1, and the samples of a
\* GPX source have no value rounded.
C20_RoundsVkxOnly ==
    (mode = "parse" /\ parse_pc = "returned") =>
        \A k \in 1..Len(df) :
            df[k].rounded =
                IF source_ext = ".vkx"
                THEN {<<"sog", 4>>, <<"cog", 4>>, <<"hdg", 4>>,
                      <<"alt", 1>>, <<"roll", 4>>, <<"pitch", 4>>}
                ELSE {}

\* the table parse of a .vkx source passes to trim_race
TrimInput == Convert(VkxFrame(unpacked.gps), 3375)

\* the race timer records with a code that unpack_vkx returned, in file order
TimerRecords(code) ==
    IF 4 \in DOMAIN course_in.dict
    THEN SelectSeq(course_in.dict[4], LAMBDA item : item[2] = code)
    ELSE <<>>

\* the rows of TrimInput with left <= UTC <= right, in their order
RowsWithin(left, right) ==
    SelectSeq(TrimInput, LAMBDA r : IntLe(left, r.UTC) /\ IntLe(r.UTC, right))

\* C23 (as claimed): trim_race returns exactly the rows with start <= UTC <= end,
\* in their order, where start (end) is the race_start (race_end) of the caller
\* when one is given and the one extracted from the race timer records otherwise.
C23_SuppliedOverridesExtracted ==
    (mode = "parse" /\ trim.ran) =>
        LET starts == TimerRecords(3)
            ends == TimerRecords(4)
        IN  ((~race_start.none \/ starts # <<>>) /\ (~race_end.none \/ ends # <<>>)) =>
                /\ trim.raised = None
                /\ trim.race_df =
                      RowsWithin(IF ~race_start.none THEN race_start ELSE Last(starts)[1],
                                 IF ~race_end.none THEN race_end ELSE Last(ends)[1])

\* C24 (as claimed): when neither the caller nor the race timer records give a
\* race end (a race start), also when there is no race timer record at all,
\* trim_race returns and excludes no row on that side; with no bound on either
\* side it returns the whole table.
C24_DefaultsToDataBounds ==
    (mode = "parse" /\ trim.ran) =>
        LET noStart == race_start.none /\ TimerRecords(3) = <<>>
            noEnd == race_end.none /\ TimerRecords(4) = <<>>
            kept == {trim.race_df[k].idx : k \in 1..Len(trim.race_df)}
        IN  /\ (noStart \/ noEnd) => trim.raised = None
            /\ noEnd => \A i \in 1..Len(TrimInput) :
                           IntLe(trim.race_start, TrimInput[i].UTC) => TrimInput[i].idx \in kept
            /\ noStart => \A i \in 1..Len(TrimInput) :
                             IntLe(TrimInput[i].UTC, trim.race_end) => TrimInput[i].idx \in kept
            /\ (noStart /\ noEnd) => trim.race_df = TrimInput

\* C25 (as claimed): for every pair of consecutive points of the track, the two
\* asserts of calc_distance hold in the call calc_sog_cog makes for the pair, so
\* that the call returns.
C25_AssertionsHold ==
    (mode = "parse" /\ source_ext = ".gpx" /\ gpx_pc = "returned") =>
        LET rows == GpxFrame(gpx_ret.data)
        IN  \A i \in 2..Len(rows) :
                CalcDistanceReturns(rows[i - 1].lat, rows[i - 1].lon, rows[i].lat, rows[i].lon)

\* ------------------------------------------------------------------------
\* manoeuvres: fix_heading and apply_PoS on one row
\* ------------------------------------------------------------------------
Abs(x) == IF x < 0 THEN -x ELSE x

\* fix_heading with "heading < -180" for "heading <= -180"
fix_heading_strict(h, tw) ==
    LET h1 == IF h < 0 THEN 360 - Abs(h) ELSE h
        h2 == h1 - tw
    IN  IF h2 > 180 THEN -180 + Abs(180 - h2)
        ELSE IF h2 < -180 THEN 180 - Abs(180 + h2)
        ELSE h2

\* fix_heading with "180 - abs(180 - heading)" for "-180 + abs(180 - heading)"
fix_heading_mirror(h, tw) ==
    LET h1 == IF h < 0 THEN 360 - Abs(h) ELSE h
        h2 == h1 - tw
    IN  IF h2 > 180 THEN 180 - Abs(180 - h2)
        ELSE IF h2 <= -180 THEN 180 - Abs(180 + h2)
        ELSE h2

\* fix_heading(heading, true_wind)
fix_heading(h, tw) ==
    LET h1 == IF h < 0 THEN 360 - Abs(h) ELSE h
        h2 == h1 - tw
    IN  IF h2 > 180 THEN -180 + Abs(180 - h2)
        ELSE IF h2 <= -180 THEN 180 - Abs(180 + h2)
        ELSE h2

\* pd.cut with right=False: the bins are closed on the left
Cut_LeftClosed(x, bins, labels, include_lowest) ==
    LET hit == {i \in 1..(Len(bins) - 1) : bins[i] <= x /\ x < bins[i + 1]}
    IN  IF hit = {} THEN "NaN" ELSE labels[CHOOSE i \in hit : TRUE]

\* pd.cut(x, bins, labels=labels, include_lowest=include_lowest): the label of
\* the bin (bins[i], bins[i+1]] holding x, the first bin holding bins[1] too
\* when include_lowest; NaN when no bin holds x
Cut(x, bins, labels, include_lowest) ==
    LET hit == {i \in 1..(Len(bins) - 1) :
                   \/ (bins[i] < x /\ x <= bins[i + 1])
                   \/ (include_lowest /\ i = 1 /\ x = bins[1])}
    IN  IF hit = {} THEN "NaN" ELSE labels[CHOOSE i \in hit : TRUE]

\* the breakpoints of an earlier iteration
PoS_bounds_old == <<0, 30, 90, 170, 180>>

PoS_bounds == <<0, 30, 60, 95, 180>>
PoS_labels == <<"Head to Wind", "Upwind", "Reach", "Downwind">>
tack_bounds == <<-180, 0, 180>>
tack_labels == <<"Port", "Starboard">>

\* a row with a heading in (-180, 180] and a true wind direction in [0, 360)
InitMan ==
    /\ mode = "man"
    /\ EulerIdle /\ MainIdle
    /\ VkxIdle /\ GpxIdle /\ ParseIdle /\ DetectIdle /\ WindIdle
    /\ heading \in (-179)..180
    /\ true_wind \in 0..359
    /\ rel_heading = 0 /\ PoS = "NaN" /\ tack = "NaN"
    /\ man_pc = "start"

\* manoeuvres: df["rel_heading"] = fix_heading(heading, true_wind_angle)
ManFixHeading ==
    /\ mode = "man" /\ man_pc = "start"
    /\ rel_heading' = fix_heading(heading, true_wind)
    /\ man_pc' = "twa"
    /\ UNCHANGED <<detectVars, windVars, mode, eulerVars, mainVars, vkxVars, gpxVars, parseVars, heading, true_wind, PoS, tack>>

\* apply_PoS: the point of sail and the tack of the row
ManApplyPoS ==
    /\ mode = "man" /\ man_pc = "twa"
    /\ PoS' = Cut(Abs(rel_heading), PoS_bounds, PoS_labels, TRUE)
    /\ tack' = Cut(rel_heading, tack_bounds, tack_labels, TRUE)
    /\ man_pc' = "classified"
    /\ UNCHANGED <<detectVars, windVars, mode, eulerVars, mainVars, vkxVars, gpxVars, parseVars, heading, true_wind, rel_heading>>

NextMan == ManFixHeading \/ ManApplyPoS

SpecMan == InitMan /\ [][NextMan]_vars

\* C9: for a heading in (-180, 180] and a true wind direction in [0, 360)
\* fix_heading gives a value in (-180, 180] congruent to heading - twd modulo 360.
C9_TwaInRange ==
    (mode = "man" /\ man_pc \in {"twa", "classified"}) =>
        /\ -180 < rel_heading /\ rel_heading <= 180
        /\ (rel_heading - (heading - true_wind)) % 360 = 0

C9_Witness ==
    /\ mode = "man" /\ man_pc = "twa"
    /\ heading = 0 /\ true_wind = 180 /\ rel_heading = 180

\* C10: apply_PoS gives the tack Port exactly for a twa in (-180, 0] and Starboard
\* exactly for a twa in (0, 180]; every twa in (-180, 180] has one of the two.
C10_TackBySide ==
    (mode = "man" /\ man_pc = "classified") =>
        /\ tack \in {"Port", "Starboard"}
        /\ (tack = "Port") <=> (-180 < rel_heading /\ rel_heading <= 0)
        /\ (tack = "Starboard") <=> (0 < rel_heading /\ rel_heading <= 180)

C10_Witness ==
    /\ mode = "man" /\ man_pc = "classified"
    /\ rel_heading = 0 /\ tack = "Port"

\* C11 as stated: fix_heading gives 0 for heading 150 with twd 150, -170 for
\* heading -170 with twd 0 and 180 for heading 0 with twd 180, and the row with
\* twa = 180 has the tack Port.
C11_AsStated ==
    (mode = "man" /\ man_pc = "classified") =>
        /\ (heading = 150 /\ true_wind = 150) => rel_heading = 0
        /\ (heading = -170 /\ true_wind = 0) => rel_heading = -170
        /\ (heading = 0 /\ true_wind = 180) => (rel_heading = 180 /\ tack = "Port")

\* C11 amended: the same three values of twa, and the row with twa = 180 has the
\* tack Starboard (180 lies in the bin (0, 180]).
C11_Examples ==
    (mode = "man" /\ man_pc = "classified") =>
        /\ (heading = 150 /\ true_wind = 150) => rel_heading = 0
        /\ (heading = -170 /\ true_wind = 0) => rel_heading = -170
        /\ (heading = 0 /\ true_wind = 180) => (rel_heading = 180 /\ tack = "Starboard")

C11_Witness ==
    /\ mode = "man" /\ man_pc = "classified"
    /\ heading = 0 /\ true_wind = 180 /\ rel_heading = 180 /\ tack = "Starboard"

\* C12 as stated: apply_PoS labels |twa| with buckets closed on the left:
\* [0,30) Head to Wind, [30,60) Upwind, [60,95) Reach, [95,180] Downwind, every
\* |twa| in [0,180] having one label.
C12_AsStated ==
    (mode = "man" /\ man_pc = "classified") =>
        LET a == Abs(rel_heading)
        IN  /\ PoS \in {"Head to Wind", "Upwind", "Reach", "Downwind"}
            /\ (PoS = "Head to Wind") <=> (0 <= a /\ a < 30)
            /\ (PoS = "Upwind") <=> (30 <= a /\ a < 60)
            /\ (PoS = "Reach") <=> (60 <= a /\ a < 95)
            /\ (PoS = "Downwind") <=> (95 <= a /\ a <= 180)

\* C12 amended: the buckets are closed on the right: [0,30] Head to Wind,
\* (30,60] Upwind, (60,95] Reach, (95,180] Downwind; |twa| = 30 is Head to Wind,
\* 60 is Upwind, 95 is Reach; every |twa| in [0,180] has one label.
C12_RightClosedBuckets ==
    (mode = "man" /\ man_pc = "classified") =>
        LET a == Abs(rel_heading)
        IN  /\ PoS \in {"Head to Wind", "Upwind", "Reach", "Downwind"}
            /\ (PoS = "Head to Wind") <=> (0 <= a /\ a <= 30)
            /\ (PoS = "Upwind") <=> (30 < a /\ a <= 60)
            /\ (PoS = "Reach") <=> (60 < a /\ a <= 95)
            /\ (PoS = "Downwind") <=> (95 < a /\ a <= 180)

C12_Witness ==
    /\ mode = "man" /\ man_pc = "classified"
    /\ rel_heading = -30 /\ PoS = "Head to Wind"

\* ------------------------------------------------------------------------
\* manoeuvres on a whole df: fix_heading, apply_PoS, identify_manoeuvres
\* ------------------------------------------------------------------------
MaxSamples == 5

\* headings and true wind directions of the rows handed to manoeuvres
Headings == {-150, -91, -80, 0, 80, 90, 150}
TrueWinds == {0, 180}

\* a float column's value, NaN where pandas has none
Num(v) == [nan |-> FALSE, v |-> v]
NoNum == [nan |-> TRUE, v |-> 0]

\* a row of the df before manoeuvres has added its columns
Row(h, tw) ==
    [heading |-> h, true_wind_angle |-> tw, rel_heading |-> 0, PoS |-> "NaN",
     tack |-> "NaN", rel_heading_change |-> NoNum,
     tacks |-> FALSE, gybe |-> FALSE, roundup |-> FALSE, bearaway |-> FALSE]

\* a df of 1..MaxSamples rows, its true wind direction set statically
InitDetect ==
    /\ mode = "detect"
    /\ EulerIdle /\ MainIdle
    /\ VkxIdle /\ GpxIdle /\ ParseIdle /\ ManIdle /\ WindIdle
    /\ \E n \in 1..MaxSamples, tw \in TrueWinds :
          \E hs \in [1..n -> Headings] :
             man_in = [i \in 1..n |-> Row(hs[i], tw)]
    /\ man_df = <<>>
    /\ det_pc = "start"

\* manoeuvres: df["rel_heading"] = df.apply(fix_heading(heading, true_wind_angle))
DetFixHeading ==
    /\ mode = "detect" /\ det_pc = "start"
    /\ man_df' = [i \in 1..Len(man_in) |->
                    [man_in[i] EXCEPT !.rel_heading =
                        fix_heading(man_in[i].heading, man_in[i].true_wind_angle)]]
    /\ det_pc' = "twa"
    /\ UNCHANGED <<mode, eulerVars, mainVars, vkxVars, gpxVars, parseVars, manVars, windVars, man_in>>

\* apply_PoS on every row
DetApplyPoS ==
    /\ mode = "detect" /\ det_pc = "twa"
    /\ man_df' = [i \in 1..Len(man_df) |->
                    [man_df[i] EXCEPT
                        !.PoS = Cut(Abs(man_df[i].rel_heading), PoS_bounds, PoS_labels, TRUE),
                        !.tack = Cut(man_df[i].rel_heading, tack_bounds, tack_labels, TRUE)]]
    /\ det_pc' = "PoS"
    /\ UNCHANGED <<mode, eulerVars, mainVars, vkxVars, gpxVars, parseVars, manVars, windVars, man_in>>

\* df["rel_heading"].diff(): NaN in the first row
Diff(rows) ==
    [i \in 1..Len(rows) |->
        [rows[i] EXCEPT !.rel_heading_change =
            IF i = 1 THEN NoNum ELSE Num(rows[i].rel_heading - rows[i - 1].rel_heading)]]

\* df["tack"].shift() != df["tack"] in row i: the shifted value of the first row
\* is NaN, and != with a NaN on either side is True
TackShiftNe(rows, i) ==
    \/ i = 1
    \/ rows[i - 1].tack = "NaN" \/ rows[i].tack = "NaN"
    \/ rows[i - 1].tack # rows[i].tack

\* identify_manoeuvres with "< 90" for "<= 90" in the tacks column
identify_manoeuvres_lt(rows) ==
    [i \in 1..Len(rows) |->
        [rows[i] EXCEPT
            !.tacks = TackShiftNe(rows, i) /\ Abs(rows[i].rel_heading) < 90,
            !.gybe = TackShiftNe(rows, i) /\ Abs(rows[i].rel_heading) > 90,
            !.roundup = /\ i > 1 /\ Abs(rows[i - 1].rel_heading) > 90
                        /\ Abs(rows[i].rel_heading) <= 90,
            !.bearaway = /\ i > 1 /\ Abs(rows[i - 1].rel_heading) <= 90
                         /\ Abs(rows[i].rel_heading) > 90]]

\* identify_manoeuvres: a comparison with the NaN that rel_heading.shift() has
\* in the first row is False
identify_manoeuvres(rows) ==
    [i \in 1..Len(rows) |->
        [rows[i] EXCEPT
            !.tacks = TackShiftNe(rows, i) /\ Abs(rows[i].rel_heading) <= 90,
            !.gybe = TackShiftNe(rows, i) /\ Abs(rows[i].rel_heading) > 90,
            !.roundup = /\ i > 1 /\ Abs(rows[i - 1].rel_heading) > 90
                        /\ Abs(rows[i].rel_heading) <= 90,
            !.bearaway = /\ i > 1 /\ Abs(rows[i - 1].rel_heading) <= 90
                         /\ Abs(rows[i].rel_heading) > 90]]

\* manoeuvres: rel_heading_change
DetDiff ==
    /\ mode = "detect" /\ det_pc = "PoS"
    /\ man_df' = Diff(man_df)
    /\ det_pc' = "diff"
    /\ UNCHANGED <<mode, eulerVars, mainVars, vkxVars, gpxVars, parseVars, manVars, windVars, man_in>>

\* manoeuvres: df = identify_manoeuvres(log, df); return df
DetIdentify ==
    /\ mode = "detect" /\ det_pc = "diff"
    /\ man_df' = identify_manoeuvres(man_df)
    /\ det_pc' = "returned"
    /\ UNCHANGED <<mode, eulerVars, mainVars, vkxVars, gpxVars, parseVars, manVars, windVars, man_in>>

NextDetect == DetFixHeading \/ DetApplyPoS \/ DetDiff \/ DetIdentify

SpecDetect == InitDetect /\ [][NextDetect]_vars

\* the manoeuvre events set on a row
Events(row) ==
    {e \in {"Tack", "Gybe", "RoundUp", "BearAway"} :
        \/ (e = "Tack" /\ row.tacks) \/ (e = "Gybe" /\ row.gybe)
        \/ (e = "RoundUp" /\ row.roundup) \/ (e = "BearAway" /\ row.bearaway)}

\* C13: for every sample with a predecessor, Tack is set iff its tack differs
\* from the predecessor's and |twa| <= 90, Gybe iff the tack differs and
\* |twa| > 90; no sample has both Tack and Gybe.
C13_TackGybeOnTackChange ==
    (mode = "detect" /\ det_pc = "returned") =>
        /\ \A i \in 2..Len(man_df) :
              LET changed == man_df[i].tack # man_df[i - 1].tack
                  twa == Abs(man_df[i].rel_heading)
              IN  /\ man_df[i].tacks <=> (changed /\ twa <= 90)
                  /\ man_df[i].gybe <=> (changed /\ twa > 90)
        /\ \A i \in 1..Len(man_df) : ~(man_df[i].tacks /\ man_df[i].gybe)

C13_Witness ==
    /\ mode = "detect" /\ det_pc = "returned"
    /\ Len(man_df) >= 3
    /\ man_df[2].tacks /\ Abs(man_df[2].rel_heading) = 90
    /\ man_df[3].gybe /\ Abs(man_df[3].rel_heading) = 91

\* C14: every sample has at most one of the events Tack, Gybe, RoundUp,
\* BearAway, and RoundUp or BearAway only where the tack is that of the
\* previous sample.
C14_AtMostOneEvent ==
    (mode = "detect" /\ det_pc = "returned") =>
        \A i \in 1..Len(man_df) :
            /\ Cardinality(Events(man_df[i])) <= 1
            /\ (man_df[i].roundup \/ man_df[i].bearaway) =>
                   (i > 1 /\ man_df[i].tack = man_df[i - 1].tack)

\* C15: the first sample of a series has none of the four events, and the twa
\* series [-150, -80, 80, 150, -150] is labelled [None, RoundUp, Tack,
\* BearAway, Gybe].
C15_FirstSampleNoEvent ==
    (mode = "detect" /\ det_pc = "returned") =>
        /\ Events(man_df[1]) = {}
        /\ [i \in 1..Len(man_df) |-> man_df[i].rel_heading] = <<-150, -80, 80, 150, -150>>
              => [i \in 1..Len(man_df) |-> Events(man_df[i])] =
                    <<{}, {"RoundUp"}, {"Tack"}, {"BearAway"}, {"Gybe"}>>

\* ------------------------------------------------------------------------
\* wind.angular_interpolation
\* ------------------------------------------------------------------------
MaxWind == 4

\* sample times, directions and evaluation times
Times == {1, 2, 3, 4, 15}
Directions == {10, 20, 29, 190, 331, 350, 360}
Queries == {0, 1, 2, 3, 4, 8, 15, 16}

RECURSIVE GCD(_, _)
GCD(a, b) == IF b = 0 THEN a ELSE GCD(b, a % b)

RECURSIVE IsPow2(_)
IsPow2(n) == n = 1 \/ (n % 2 = 0 /\ IsPow2(n \div 2))

\* the quotient d / t is a binary fraction, so a float64 holds it exactly
Dyadic(d, t) == IsPow2(t \div GCD(Abs(d), t))

\* np.unwrap(p, period=period) on integers: a step dd between neighbours is
\* replaced by the step congruent to it in [-period/2, period/2] when
\* |dd| >= period/2, and the corrections are summed along the array
RECURSIVE unwrap(_, _)
unwrap(p, period) ==
    IF Len(p) <= 1 THEN p
    ELSE LET n == Len(p)
             up == unwrap(SubSeq(p, 1, n - 1), period)
             interval_high == period \div 2
             boundary_ambiguous == period % 2 = 0
             interval_low == -interval_high
             dd == p[n] - p[n - 1]
             ddmod0 == ((dd - interval_low) % period) + interval_low
             ddmod == IF boundary_ambiguous /\ ddmod0 = interval_low /\ dd > 0
                      THEN interval_high ELSE ddmod0
             ph_correct == IF 2 * Abs(dd) < period THEN 0 ELSE ddmod - dd
             \* the corrections summed so far are up[n-1] - p[n-1]
         IN  Append(up, p[n] + (up[n - 1] - p[n - 1]) + ph_correct)

\* np.interp(x, xp, fp) for one x: fp at the ends and at a sample time,
\* slope * (x - xp[j]) + fp[j] between two samples. The floats the build can
\* compute for that expression: the exact value when the slope is a binary
\* fraction, else the exact value or a float next to it on either side.
interp(xv, xs, fs) ==
    LET n == Len(xs)
    IN  IF n = 1 \/ xv <= xs[1] THEN {Float(fs[1], 1, 0)}
        ELSE IF xv >= xs[n] THEN {Float(fs[n], 1, 0)}
        ELSE LET j == CHOOSE k \in 1..(n - 1) : xs[k] <= xv /\ xv < xs[k + 1]
                 t == xs[j + 1] - xs[j]
                 d == fs[j + 1] - fs[j]
             IN  IF xv = xs[j] THEN {Float(fs[j], 1, 0)}
                 ELSE {Float(fs[j] * t + d * (xv - xs[j]), t, e) :
                          e \in IF Dyadic(d, t) THEN {0} ELSE {-1, 0, 1}}

\* np.mod(v, period) on a float: fmod, and period added to a negative
\* remainder; a remainder just below 0 gives period or the float below it
mod(v, period) ==
    LET r == v.num % (period * v.den)
    IN  IF r = 0 /\ v.err = -1
        THEN {Float(period * v.den, v.den, 0), Float(period * v.den, v.den, -1)}
        ELSE {Float(r, v.den, v.err)}

\* astype(int) on a float that is not negative: the integer part
astype_int(v) ==
    IF v.err = -1 /\ v.num % v.den = 0 THEN (v.num \div v.den) - 1
    ELSE v.num \div v.den

\* xp strictly increasing, fp of the same length with values in [0, 360]
InitInterp ==
    /\ mode = "interp"
    /\ EulerIdle /\ MainIdle
    /\ VkxIdle /\ GpxIdle /\ ParseIdle /\ ManIdle /\ DetectIdle
    /\ FilterIdle /\ CacheIdle
    /\ \E n \in 1..MaxWind :
          /\ xp \in {s \in [1..n -> Times] : \A i \in 1..(n - 1) : s[i] < s[i + 1]}
          /\ fp \in [1..n -> Directions]
    /\ interp_x \in Queries
    /\ interp_vals = Float(0, 1, 0)
    /\ interp_pc = "start"

\* interp_vals = np.interp(x, xp, np.unwrap(fp, period=period))
InterpUnwrap ==
    /\ mode = "interp" /\ interp_pc = "start"
    /\ interp_vals' \in interp(interp_x, xp, unwrap(fp, 360))
    /\ interp_pc' = "interp"
    /\ UNCHANGED <<mode, eulerVars, mainVars, vkxVars, gpxVars, parseVars, manVars, detectVars,
                   filterVars, cacheVars, xp, fp, interp_x>>

\* interp_vals = np.mod(interp_vals, period)
InterpMod ==
    /\ mode = "interp" /\ interp_pc = "interp"
    /\ interp_vals' \in mod(interp_vals, 360)
    /\ interp_pc' = "mod"
    /\ UNCHANGED <<mode, eulerVars, mainVars, vkxVars, gpxVars, parseVars, manVars, detectVars,
                   filterVars, cacheVars, xp, fp, interp_x>>

\* interp_vals = interp_vals.astype(int); return interp_vals
InterpAsType ==
    /\ mode = "interp" /\ interp_pc = "mod"
    /\ interp_vals' = Float(astype_int(interp_vals), 1, 0)
    /\ interp_pc' = "returned"
    /\ UNCHANGED <<mode, eulerVars, mainVars, vkxVars, gpxVars, parseVars, manVars, detectVars,
                   filterVars, cacheVars, xp, fp, interp_x>>

NextInterp == InterpUnwrap \/ InterpMod \/ InterpAsType

SpecInterp == InitInterp /\ [][NextInterp]_vars

\* v lies on the shorter arc of the circle between the directions a and b
\* (which are less than 180 degrees apart)
OnShorterArc(v, a, b) ==
    LET cw == (b - a) % 360
    IN  IF cw < 180 THEN (v - a) % 360 <= cw
        ELSE (v - b) % 360 <= (a - b) % 360

\* C16, first part: the value angular_interpolation returns is in [0, 360).
C16_InRange ==
    (mode = "interp" /\ interp_pc = "returned") =>
        (0 <= interp_vals.num /\ interp_vals.num < 360)

\* C16, second part: at a sample time xp[i] the value is fp[i] mod 360.
C16_AtSamples ==
    (mode = "interp" /\ interp_pc = "returned") =>
        \A i \in 1..Len(xp) :
            interp_x = xp[i] => interp_vals.num = fp[i] % 360

\* C16, third part: between two consecutive samples whose directions are less
\* than 180 degrees apart the value lies on the shorter arc between them.
C16_OnShorterArc ==
    (mode = "interp" /\ interp_pc = "returned") =>
        \A i \in 1..(Len(xp) - 1) :
            (/\ xp[i] < interp_x /\ interp_x < xp[i + 1]
             /\ (fp[i + 1] - fp[i]) % 360 # 180) =>
                OnShorterArc(interp_vals.num, fp[i], fp[i + 1])

\* C16: for strictly increasing xp and fp in [0, 360] angular_interpolation
\* returns a value in [0, 360), fp[i] mod 360 at every sample time xp[i], and a
\* value on the shorter arc between two consecutive samples less than 180
\* degrees apart.
C16_AngularInterpolation == C16_InRange /\ C16_AtSamples /\ C16_OnShorterArc

\* ------------------------------------------------------------------------
\* wind.filter_wind_data
\* ------------------------------------------------------------------------
MaxWindPoints == 4

dp_interval == 600000
extra_dps == 3
timezone_offset == 1 * 60 * 60 * 11

\* df["UTC"] of the tracks, milliseconds
Tracks == {<<2000000>>, <<2000000, 2500000, 3000000>>}

\* the points of a response: x in seconds (local time), y in km/h, direction
\* in degrees
ResponsePoints ==
    {[x |-> timezone_offset + s, y |-> w[1], direction |-> w[2]] :
        s \in {199, 200, 2500, 4800, 4801}, w \in {<<10, 180>>, <<37, 270>>}}

\* np.round(y / 1.852, 1), in tenths of a knot (no integer y is a tie)
Tws(y) == (y * 10000 + 926) \div 1852

\* "race_start < time < race_end" for "race_start <= time <= race_end"
InWindow_strict(time, start, end) == start < time /\ time < end

\* race_start <= time <= race_end
InWindow(time, start, end) == start <= time /\ time <= end

\* filter_wind_data's race_start and race_end
WindowStart == df_utc[1] - dp_interval * extra_dps
WindowEnd == df_utc[Len(df_utc)] + dp_interval * extra_dps

\* filter_wind_data's time of a point
PointMs(point) == (point.x - timezone_offset) * 1000

InitFilter ==
    /\ mode = "filter"
    /\ EulerIdle /\ MainIdle
    /\ VkxIdle /\ GpxIdle /\ ParseIdle /\ ManIdle /\ DetectIdle
    /\ InterpIdle /\ CacheIdle
    /\ df_utc \in Tracks
    /\ \E n \in 0..MaxWindPoints : resp_data \in [1..n -> ResponsePoints]
    /\ filter_i = 0 /\ wind_data = <<>> /\ filter_pc = "loop"

\* the loop body for a point inside the window: append (time, tws, twd)
FilterKeep ==
    /\ mode = "filter" /\ filter_pc = "loop" /\ filter_i < Len(resp_data)
    /\ LET point == resp_data[filter_i + 1]
           time == PointMs(point)
       IN  /\ InWindow(time, WindowStart, WindowEnd)
           /\ wind_data' = Append(wind_data, [time |-> time, tws |-> Tws(point.y),
                                              twd |-> point.direction])
    /\ filter_i' = filter_i + 1
    /\ UNCHANGED <<mode, eulerVars, mainVars, vkxVars, gpxVars, parseVars, manVars, detectVars,
                   interpVars, cacheVars, df_utc, resp_data, filter_pc>>

\* the loop body for a point outside the window
FilterSkip ==
    /\ mode = "filter" /\ filter_pc = "loop" /\ filter_i < Len(resp_data)
    /\ ~InWindow(PointMs(resp_data[filter_i + 1]), WindowStart, WindowEnd)
    /\ filter_i' = filter_i + 1
    /\ UNCHANGED <<mode, eulerVars, mainVars, vkxVars, gpxVars, parseVars, manVars, detectVars,
                   interpVars, cacheVars, df_utc, resp_data, wind_data, filter_pc>>

\* return wind_data
FilterReturn ==
    /\ mode = "filter" /\ filter_pc = "loop" /\ filter_i = Len(resp_data)
    /\ filter_pc' = "returned"
    /\ UNCHANGED <<mode, eulerVars, mainVars, vkxVars, gpxVars, parseVars, manVars, detectVars,
                   interpVars, cacheVars, df_utc, resp_data, filter_i, wind_data>>

NextFilter == FilterKeep \/ FilterSkip \/ FilterReturn

SpecFilter == InitFilter /\ [][NextFilter]_vars

\* the positions in resp_data of the points the claim keeps: those with
\* firstUTC - 1800000 <= (x - 39600) * 1000 <= lastUTC + 1800000
ClaimedKept ==
    {i \in 1..Len(resp_data) :
        LET t == (resp_data[i].x - 39600) * 1000
        IN  df_utc[1] - 1800000 <= t /\ t <= df_utc[Len(df_utc)] + 1800000}

\* C17: filter_wind_data returns, in input order, exactly the points whose time
\* t = (x - 39600) * 1000 lies in [firstUTC - 1800000, lastUTC + 1800000], each
\* as (t, speed in knots, direction).
C17_KeepsWindowInOrder ==
    (mode = "filter" /\ filter_pc = "returned") =>
        /\ Len(wind_data) = Cardinality(ClaimedKept)
        /\ \A k \in 1..Len(wind_data) :
              \E i \in ClaimedKept :
                 /\ Cardinality({j \in ClaimedKept : j <= i}) = k
                 /\ wind_data[k].time = (resp_data[i].x - 39600) * 1000
                 /\ wind_data[k].twd = resp_data[i].direction
                 \* tenths of a knot nearest to y / 1.852
                 /\ Abs(wind_data[k].tws * 1852 - resp_data[i].y * 10000) <= 926

\* a point on each bound is kept, a point one second outside each is dropped
C17_Witness ==
    /\ mode = "filter" /\ filter_pc = "returned"
    /\ df_utc = <<2000000, 2500000, 3000000>>
    /\ [i \in 1..Len(resp_data) |-> resp_data[i].x - 39600] = <<4801, 4800, 200, 199>>
    /\ [k \in 1..Len(wind_data) |-> wind_data[k].time] = <<4800000, 200000>>

\* ------------------------------------------------------------------------
\* wind.get_wind_data, and wind.add_twd calling it through bom_twd
\* ------------------------------------------------------------------------
MaxCalls == 3

\* JSON documents the weather service may answer with
Bodies == {"w1", "w2"}

\* the date bom_twd asks for
BomDate == "2023-10-28"

\* the twd argument of add_twd
FixedTwds == {34}

\* the cache directory with any files a former run left in it
InitCache ==
    /\ mode = "cache"
    /\ EulerIdle /\ MainIdle
    /\ VkxIdle /\ GpxIdle /\ ParseIdle /\ ManIdle /\ DetectIdle
    /\ InterpIdle /\ FilterIdle
    /\ dir_exists \in BOOLEAN
    /\ files \in [Dates -> Bodies \cup {NoFile}]
    /\ ~dir_exists => \A d \in Dates : files[d] = NoFile
    /\ wcall = NoCall /\ wind_pc = "ready" /\ wresult = NoResult
    /\ requests = <<>> /\ ncalls = 0 /\ twd_out = NoTwd

\* a caller calls get_wind_data(log, date)
WindCallGet ==
    /\ mode = "cache" /\ wind_pc = "ready" /\ ncalls < MaxCalls
    /\ \E d \in Dates :
          wcall' = [caller |-> "get_wind_data", date |-> d, track |-> "none", twd |-> 0]
    /\ ncalls' = ncalls + 1
    /\ wind_pc' = "open" /\ wresult' = NoResult /\ twd_out' = NoTwd
    /\ UNCHANGED <<mode, eulerVars, mainVars, vkxVars, gpxVars, parseVars, manVars, detectVars,
                   interpVars, filterVars, dir_exists, files, requests>>

\* a caller calls add_twd(log, df, twd) with the df of a track recorded on the
\* date track: bom_twd calls get_wind_data(log, "2023-10-28")
WindCallAddTwd ==
    /\ mode = "cache" /\ wind_pc = "ready" /\ ncalls < MaxCalls
    /\ \E tr \in Dates, t \in FixedTwds :
          wcall' = [caller |-> "add_twd", date |-> BomDate, track |-> tr, twd |-> t]
    /\ ncalls' = ncalls + 1
    /\ wind_pc' = "open" /\ wresult' = NoResult /\ twd_out' = NoTwd
    /\ UNCHANGED <<mode, eulerVars, mainVars, vkxVars, gpxVars, parseVars, manVars, detectVars,
                   interpVars, filterVars, dir_exists, files, requests>>

\* get_wind_data is called on its own, by add_twd, or by add_twd called by main
WindModes == {"cache", "main"}

\* the network request of the call in progress, with its outcome
Request(outcome) == [date |-> wcall.date, call |-> ncalls, outcome |-> outcome]

\* get_wind_data: the file exists, json.load gives its data
WindHit ==
    /\ mode \in WindModes /\ wind_pc = "open"
    /\ files[wcall.date] # NoFile
    /\ wresult' = [kind |-> "returned", data |-> files[wcall.date]]
    /\ wind_pc' = "got"
    /\ UNCHANGED <<mode, eulerVars, mainVars, vkxVars, gpxVars, parseVars, manVars, detectVars,
                   interpVars, filterVars, dir_exists, files, wcall, requests,
                   ncalls, twd_out>>

\* WindDownload that does not write the file
WindDownload_NoStore ==
    /\ mode \in WindModes /\ wind_pc = "open"
    /\ files[wcall.date] = NoFile /\ dir_exists
    /\ \E body \in Bodies :
          wresult' = [kind |-> "returned", data |-> body]
    /\ requests' = Append(requests, Request("saved"))
    /\ wind_pc' = "got"
    /\ UNCHANGED <<mode, eulerVars, mainVars, vkxVars, gpxVars, parseVars, manVars, detectVars,
                   interpVars, filterVars, dir_exists, files, wcall, ncalls, twd_out>>

\* get_wind_data: FileNotFoundError, the request is answered, the answer is
\* parsed and written to the file
WindDownload ==
    /\ mode \in WindModes /\ wind_pc = "open"
    /\ files[wcall.date] = NoFile /\ dir_exists
    /\ \E body \in Bodies :
          /\ files' = [files EXCEPT ![wcall.date] = body]
          /\ wresult' = [kind |-> "returned", data |-> body]
    /\ requests' = Append(requests, Request("saved"))
    /\ wind_pc' = "got"
    /\ UNCHANGED <<mode, eulerVars, mainVars, vkxVars, gpxVars, parseVars, manVars, detectVars,
                   interpVars, filterVars, dir_exists, wcall, ncalls, twd_out>>

\* MissFails with the file created before the failure
MissFails_Stores(exc) ==
    /\ mode \in WindModes /\ wind_pc = "open"
    /\ files[wcall.date] = NoFile
    /\ requests' = Append(requests, Request(exc))
    /\ files' = [files EXCEPT ![wcall.date] = "w1"]
    /\ wresult' = [kind |-> "raised", data |-> exc]
    /\ wind_pc' = "got"
    /\ UNCHANGED <<mode, eulerVars, mainVars, vkxVars, gpxVars, parseVars, manVars, detectVars,
                   interpVars, filterVars, dir_exists, wcall, ncalls, twd_out>>

\* get_wind_data: a failure after the cache miss raises exc and writes no file
MissFails(exc) ==
    /\ mode \in WindModes /\ wind_pc = "open"
    /\ files[wcall.date] = NoFile
    /\ requests' = Append(requests, Request(exc))
    /\ wresult' = [kind |-> "raised", data |-> exc]
    /\ wind_pc' = "got"
    /\ UNCHANGED <<mode, eulerVars, mainVars, vkxVars, gpxVars, parseVars, manVars, detectVars,
                   interpVars, filterVars, dir_exists, files, wcall, ncalls, twd_out>>

\* urlopen raises URLError
WindRequestFail ==
    /\ wind_pc = "open"
    /\ MissFails("URLError")

\* the answer is not JSON: json.loads raises JSONDecodeError
WindParseFail ==
    /\ wind_pc = "open"
    /\ MissFails("JSONDecodeError")

\* data/wind does not exist: open(file_path, "w") raises FileNotFoundError
WindSaveFail ==
    /\ ~dir_exists
    /\ MissFails("FileNotFoundError")

\* get_wind_data's caller has its data or its exception
WindReturn ==
    /\ mode = "cache" /\ wind_pc = "got"
    /\ wcall.caller = "get_wind_data"
    /\ wind_pc' = "ready"
    /\ UNCHANGED <<mode, eulerVars, mainVars, vkxVars, gpxVars, parseVars, manVars, detectVars,
                   interpVars, filterVars, dir_exists, files, wcall, wresult,
                   requests, ncalls, twd_out>>

\* add_twd has ended: what its caller gets
AddTwdEnds(out) ==
    /\ mode \in WindModes /\ wind_pc = "got"
    /\ wcall.caller = "add_twd"
    /\ twd_out' = out
    /\ wind_pc' = "ready"
    /\ UNCHANGED <<mode, eulerVars, mainVars, vkxVars, gpxVars, parseVars, manVars, detectVars,
                   interpVars, filterVars, dir_exists, files, wcall, wresult,
                   requests, ncalls>>

\* bom_twd: the data of the date asked for cover the track, twd and tws are
\* interpolated from them
BomTwdFill ==
    /\ wresult.kind = "returned" /\ wcall.track = wcall.date
    /\ AddTwdEnds([kind |-> "bom", twd |-> 0, warned |-> FALSE])

\* bom_twd: the data are of another date than the track, filter_wind_data
\* keeps no point and np.interp raises ValueError for the empty xp
BomTwdEmpty ==
    /\ wresult.kind = "returned" /\ wcall.track \in Dates /\ wcall.track # wcall.date
    /\ AddTwdEnds([kind |-> "ValueError", twd |-> 0, warned |-> FALSE])

\* bom_twd, add_twd: the exception of get_wind_data is caught nowhere
AddTwdRaise ==
    /\ wresult.kind = "raised"
    /\ AddTwdEnds([kind |-> wresult.data, twd |-> 0, warned |-> FALSE])

NextCache ==
    \/ WindCallGet \/ WindCallAddTwd
    \/ WindHit \/ WindDownload
    \/ WindRequestFail \/ WindParseFail \/ WindSaveFail
    \/ WindReturn
    \/ BomTwdFill \/ BomTwdEmpty \/ AddTwdRaise

SpecCache == InitCache /\ [][NextCache]_vars

\* the network requests made for the date d
RequestsFor(d) == {i \in 1..Len(requests) : requests[i].date = d}

\* those of them whose answer was parsed and written to the cache
SavedFor(d) == {i \in RequestsFor(d) : requests[i].outcome = "saved"}

\* what C18 says of one step: a request is made only for a date without an
\* entry; a miss that returns leaves the entry with the data returned; a hit
\* returns the entry; an entry is never removed or overwritten
ReadThroughStep ==
    /\ requests' # requests => files[wcall.date] = NoFile
    /\ (wind_pc' = "got" /\ wresult'.kind = "returned") =>
           /\ files'[wcall'.date] = wresult'.data
           /\ requests' = requests => files' = files
    /\ \A d \in Dates : files[d] # NoFile => files'[d] = files[d]

\* C18 as stated: over any sequence of get_wind_data calls the cache is
\* read-through (ReadThroughStep) and there is at most one network request
\* per date.
C18_AsStated ==
    [][/\ ReadThroughStep
       /\ \A d \in Dates : Cardinality(RequestsFor(d)') <= 1]_vars

\* C18 amended: the cache is read-through (ReadThroughStep) and there is at
\* most one network request per date whose answer is stored; a request that
\* fails is made again by the next call for the date.
C18_ReadThrough ==
    [][/\ ReadThroughStep
       /\ \A d \in Dates : Cardinality(SavedFor(d)') <= 1]_vars

\* a miss stored the data of a date, and a later call for the date is a hit
\* that returns them without a request
C18_Witness ==
    /\ mode = "cache" /\ wind_pc = "got" /\ ncalls >= 2
    /\ wresult.kind = "returned"
    /\ \E i \in SavedFor(wcall.date) :
          /\ requests[i].call < ncalls
          /\ ~\E j \in 1..Len(requests) : requests[j].call = ncalls

\* C19: when the wind data come neither from the cache nor from the network,
\* add_twd does not fail: it fills twd with the twd of its caller and warns.
C19_FallsBackToFixedTwd ==
    (/\ mode = "cache" /\ wind_pc = "ready" /\ wcall.caller = "add_twd"
     /\ wresult = [kind |-> "raised", data |-> "URLError"]) =>
        twd_out = [kind |-> "fixed", twd |-> wcall.twd, warned |-> TRUE]

\* C26 (as claimed): bom_twd asks get_wind_data for the date of the track it
\* was given, so that tracks of different dates use different cache entries.
C26_RequestsTrackDate ==
    (mode = "cache" /\ wcall.caller = "add_twd" /\ wcall.track \in Dates) =>
        wcall.date = wcall.track

\* the exceptions of urlopen and of json.loads
FetchErrors == {"URLError", "JSONDecodeError"}

\* the last network request made for the date d failed
LastRequestFailed(d) ==
    /\ RequestsFor(d) # {}
    /\ requests[MaxOf(RequestsFor(d))].outcome \in FetchErrors

MaxQuatRows == 2

\* a double as the model carries it: the value h / 2 + e * 2^-53, with nz set
\* for the negative zero; the sums and products below are exact in doubles for
\* the values that occur
F64(h, e, nz) == [h |-> h, e |-> e, nz |-> nz]

\* the components the quaternions are made of; "r" is the double of sqrt(2) / 2
Components == {"0", "1", "-1", "r", "-r"}

\* the quaternions: (w, x, y, z) with one component 1 or -1, or two components
\* r or -r, the others 0
Quaternions ==
    {q \in [1..4 -> Components] :
        LET ones == {i \in 1..4 : q[i] \in {"1", "-1"}}
            roots == {i \in 1..4 : q[i] \in {"r", "-r"}}
        IN  \/ Cardinality(ones) = 1 /\ roots = {}
            \/ Cardinality(roots) = 2 /\ ones = {}}

IsZero(v) == v.h = 0 /\ v.e = 0

\* -1, 0 or 1
Sign(v) ==
    IF v.h # 0 THEN (IF v.h > 0 THEN 1 ELSE -1)
    ELSE IF v.e # 0 THEN (IF v.e > 0 THEN 1 ELSE -1)
    ELSE 0

\* a * b for two components: r * r is the double 0.5 + 2^-53, and a zero
\* product has the sign of its factors
Mul(a, b) ==
    LET neg == (a \in {"-1", "-r"}) # (b \in {"-1", "-r"})
        s == IF neg THEN -1 ELSE 1
    IN  CASE a = "0" \/ b = "0" -> F64(0, 0, neg)
          [] a \in {"1", "-1"} /\ b \in {"1", "-1"} -> F64(2 * s, 0, FALSE)
          [] a \in {"r", "-r"} /\ b \in {"r", "-r"} -> F64(s, s, FALSE)

\* a + b: a zero sum is -0.0 only when both terms are -0.0
Add(a, b) ==
    F64(a.h + b.h, a.e + b.e,
        IsZero(a) /\ IsZero(b) /\ a.nz /\ b.nz)

\* -a
Neg(a) == F64(-a.h, -a.e, IsZero(a) /\ ~a.nz)

\* a - b
Sub(a, b) == Add(a, Neg(b))

\* 2.0 * a
Twice(a) == F64(2 * a.h, 2 * a.e, a.nz)

One == F64(2, 0, FALSE)
PlusZero == F64(0, 0, FALSE)

\* quatern2euler's sig_figs
quatern_sig_figs == 10

\* np.round without the rounding
round_off(v, decimals) == v

\* np.round(v, decimals) for decimals up to 15: a deviation of a few 2^-53 is
\* rounded away, a result of zero keeps the sign of v
round(v, decimals) ==
    F64(v.h, 0, v.h = 0 /\ (v.e < 0 \/ (v.e = 0 /\ v.nz)))

\* np.clip(v, a_min, a_max)
clip(v, a_min, a_max) ==
    IF Sign(Sub(v, a_min)) < 0 THEN a_min
    ELSE IF Sign(Sub(a_max, v)) < 0 THEN a_max
    ELSE v

\* an angle in radians: q * pi / 4, dev telling on which side of it the double
\* lies (-1 below, 0 equal, 1 above), nz set for -0.0
Angle(q, dev, nz) == [q |-> q, dev |-> dev, nz |-> nz]

\* np.arctan2(y, x) where y is a zero or x is a zero or of the size of 2^-53
arctan2(y, x) ==
    CASE Sign(y) = 0 /\ (Sign(x) < 0 \/ (IsZero(x) /\ x.nz)) ->
             Angle(IF y.nz THEN -4 ELSE 4, 0, FALSE)
      [] Sign(y) = 0 /\ ~(Sign(x) < 0 \/ (IsZero(x) /\ x.nz)) ->
             Angle(0, 0, y.nz)
      [] Sign(y) # 0 /\ IsZero(x) ->
             Angle(2 * Sign(y), 0, FALSE)
      [] Sign(y) # 0 /\ Sign(x) < 0 /\ x.h = 0 ->
             Angle(2 * Sign(y), Sign(y), FALSE)

\* np.arcsin(v) for v in {-1, -0.0, 0.0, 1}
arcsin(v) ==
    CASE IsZero(v) -> Angle(0, 0, v.nz)
      [] v = One -> Angle(2, 0, FALSE)
      [] v = Neg(One) -> Angle(-2, 0, FALSE)

\* np.rad2deg of an angle: [deg, dev, nz], deg in whole degrees
rad2deg(a) == [deg |-> 45 * a.q, dev |-> a.dev, nz |-> a.nz]

\* quatern2euler(w, x, y, z) for one row: <<roll, pitch, yaw>> in degrees
quatern2euler(w, x, y, z) ==
    LET sinr_cosp == Twice(Add(Mul(w, x), Mul(y, z)))
        cosr_cosp == Add(round(Sub(One, Twice(Add(Mul(x, x), Mul(y, y)))),
                               quatern_sig_figs), PlusZero)
        roll == arctan2(sinr_cosp, cosr_cosp)
        sinp == clip(Twice(Sub(Mul(w, y), Mul(z, x))), Neg(One), One)
        pitch == arcsin(sinp)
        siny_cosp == Twice(Add(Mul(w, z), Mul(x, y)))
        cosy_cosp == Add(round(Sub(One, Twice(Add(Mul(y, y), Mul(z, z)))),
                               quatern_sig_figs), PlusZero)
        yaw == arctan2(siny_cosp, cosy_cosp)
    IN  <<rad2deg(roll), rad2deg(pitch), rad2deg(yaw)>>

\* vkx_df has built the df of a file with 1..MaxQuatRows position records
InitEuler ==
    /\ mode = "euler"
    /\ VkxIdle /\ GpxIdle /\ ParseIdle /\ ManIdle /\ DetectIdle /\ WindIdle /\ MainIdle
    /\ \E n \in 1..MaxQuatRows : quats \in [1..n -> Quaternions]
    /\ euler_angles = <<>> /\ attitude = <<>> /\ euler_pc = "start"

\* euler_angles = quatern2euler(df["Q_w"], df["Q_x"], df["Q_y"], df["Q_z"]):
\* the function works on the columns, row by row
VkxQuatern2Euler ==
    /\ mode = "euler" /\ euler_pc = "start"
    /\ LET rows == [i \in 1..Len(quats) |->
                       quatern2euler(quats[i][1], quats[i][2], quats[i][3], quats[i][4])]
       IN  euler_angles' = [k \in 1..3 |-> [i \in 1..Len(quats) |-> rows[i][k]]]
    /\ euler_pc' = "converted"
    /\ UNCHANGED <<mode, vkxVars, gpxVars, parseVars, manVars, detectVars, windVars,
                   mainVars, quats, attitude>>

\* df.assign(hdg=euler_angles[2], roll=euler_angles[0], pitch=euler_angles[1])
\* with the indices of the code: euler_angles[k] is the k+1st of the sequence
VkxAssignWith(hdg, roll, pitch) ==
    /\ mode = "euler" /\ euler_pc = "converted"
    /\ attitude' = [i \in 1..Len(quats) |->
                       [hdg |-> euler_angles[hdg + 1][i],
                        roll |-> euler_angles[roll + 1][i],
                        pitch |-> euler_angles[pitch + 1][i]]]
    /\ euler_pc' = "assigned"
    /\ UNCHANGED <<mode, vkxVars, gpxVars, parseVars, manVars, detectVars, windVars,
                   mainVars, quats, euler_angles>>

VkxAssign ==
    /\ euler_pc = "converted"
    /\ VkxAssignWith(2, 0, 1)

NextEuler == VkxQuatern2Euler \/ VkxAssign

SpecEuler == InitEuler /\ [][NextEuler]_vars

\* an angle of the model is the double d (0.0 and -0.0 being equal)
IsDeg(a, d) == a.deg = d /\ a.dev = 0

\* the quaternion with the components w, x, y, z
Quat(w, x, y, z) == [i \in 1..4 |-> <<w, x, y, z>>[i]]

\* C22: quatern2euler gives (roll, pitch, yaw) in degrees: (0, 0, 0) for
\* (1, 0, 0, 0), (90, 0, 0) for (r, r, 0, 0), (0, 90, 0) for (r, 0, r, 0) and
\* (0, 0, 90) for (r, 0, 0, r) with r = sqrt(2) / 2; vkx_df's hdg is the yaw,
\* its roll the roll and its pitch the pitch of the row.
C22_EulerExamples ==
    (mode = "euler" /\ euler_pc \in {"converted", "assigned"}) =>
        \A i \in 1..Len(quats) :
            LET roll == euler_angles[1][i]
                pitch == euler_angles[2][i]
                yaw == euler_angles[3][i]
            IN  /\ quats[i] = Quat("1", "0", "0", "0") =>
                      IsDeg(roll, 0) /\ IsDeg(pitch, 0) /\ IsDeg(yaw, 0)
                /\ quats[i] = Quat("r", "r", "0", "0") =>
                      IsDeg(roll, 90) /\ IsDeg(pitch, 0) /\ IsDeg(yaw, 0)
                /\ quats[i] = Quat("r", "0", "r", "0") =>
                      IsDeg(roll, 0) /\ IsDeg(pitch, 90) /\ IsDeg(yaw, 0)
                /\ quats[i] = Quat("r", "0", "0", "r") =>
                      IsDeg(roll, 0) /\ IsDeg(pitch, 0) /\ IsDeg(yaw, 90)
                /\ euler_pc = "assigned" =>
                      attitude[i] = [hdg |-> yaw, roll |-> roll, pitch |-> pitch]

\* a df whose rows are a yaw of 90 degrees and a pitch of 90 degrees, with
\* the columns assigned
C22_Witness ==
    /\ mode = "euler" /\ euler_pc = "assigned"
    /\ quats = <<Quat("r", "0", "0", "r"), Quat("r", "0", "r", "0")>>
    /\ IsDeg(attitude[1].hdg, 90) /\ IsDeg(attitude[1].roll, 0) /\ IsDeg(attitude[1].pitch, 0)
    /\ IsDeg(attitude[2].hdg, 0) /\ IsDeg(attitude[2].roll, 0) /\ IsDeg(attitude[2].pitch, 90)

\* ------------------------------------------------------------------------
\* __main__.main: parser.parse, then wind.add_twd, then manoeuvres.manoeuvres
\* ------------------------------------------------------------------------
\* the columns bom_twd assigns to the df
bom_twd_adds == {"twd", "tws"}

\* the columns manoeuvres reads in the rows of the df it is given
manoeuvres_reads == {"heading", "true_wind_angle"}

\* the columns manoeuvres, apply_PoS and identify_manoeuvres assign
manoeuvres_adds ==
    {"rel_heading", "PoS", "tack", "rel_heading_change",
     "tacks", "gybe", "roundup", "bearaway"}

\* main is started on a .gpx or .vkx file, with the cache directory as a
\* former run left it; it calls parse without race_start and race_end
InitMain ==
    /\ mode = "main"
    /\ VkxIdle /\ ManIdle /\ DetectIdle /\ InterpIdle /\ FilterIdle /\ EulerIdle
    /\ source_ext \in {".gpx", ".vkx"}
    /\ IF source_ext = ".gpx"
       THEN /\ points \in PointSeqs(MaxPoints) \ {<<>>}
            /\ gpx_pc = "loop"
            /\ unpacked = NoReturn
            /\ optimize \in BOOLEAN
       ELSE /\ points = <<>>
            /\ gpx_pc = "idle"
            /\ unpacked \in Unpacked
            /\ optimize = FALSE
    /\ race_start = NoInt /\ race_end = NoInt
    /\ gpx_i = 0 /\ gpx_data = <<>> /\ gpx_ret = [returned |-> FALSE, data |-> <<>>]
    /\ df = <<>> /\ course_in = Unbound /\ parse_pc = "unpack"
    /\ error = None /\ trim = NoTrim
    /\ dir_exists \in BOOLEAN
    /\ files \in [Dates -> Bodies \cup {NoFile}]
    /\ ~dir_exists => \A d \in Dates : files[d] = NoFile
    /\ wcall = NoCall /\ wind_pc = "ready" /\ wresult = NoResult
    /\ requests = <<>> /\ ncalls = 0 /\ twd_out = NoTwd
    /\ main_pc = "parse" /\ main_cols = {} /\ main_err = None

\* df = parser.parse(log, source, source_ext): a step of parse
MainParse ==
    /\ mode = "main" /\ main_pc = "parse"
    /\ \/ ParseUnpackGpx
       \/ ParseGpxRaise \/ ParseGpxDf \/ ParseVkxDf \/ ParseConvert
       \/ ParseReturnGpx \/ ParseTrim

\* the exception of parse is caught nowhere
MainParseRaise ==
    /\ mode = "main" /\ main_pc = "parse"
    /\ parse_pc = "error"
    /\ main_pc' = "error"
    /\ main_err' = error
    /\ UNCHANGED <<mode, vkxVars, gpxVars, parseVars, manVars, detectVars, windVars,
                   eulerVars, main_cols>>

\* df = wind.add_twd(log, df, twd=0): bom_twd calls get_wind_data for BomDate;
\* the track of a df with rows was recorded on some date
MainCallAddTwd ==
    /\ mode = "main" /\ main_pc = "parse"
    /\ parse_pc = "returned"
    /\ \E tr \in IF df = <<>> THEN {"empty"} ELSE Dates :
          wcall' = [caller |-> "add_twd", date |-> BomDate, track |-> tr, twd |-> 0]
    /\ ncalls' = ncalls + 1
    /\ wind_pc' = "open" /\ wresult' = NoResult /\ twd_out' = NoTwd
    /\ main_pc' = "add_twd"
    /\ UNCHANGED <<mode, vkxVars, gpxVars, parseVars, manVars, detectVars,
                   interpVars, filterVars, eulerVars, dir_exists, files, requests,
                   main_cols, main_err>>

\* get_wind_data called by bom_twd: a step of it
MainGetWindData ==
    /\ mode = "main" /\ main_pc = "add_twd"
    /\ \/ WindHit \/ WindDownload
       \/ WindRequestFail \/ WindParseFail \/ WindSaveFail

\* bom_twd: the df has no row, df["UTC"].iloc[0] in filter_wind_data raises
\* IndexError
BomTwdIndexError ==
    /\ wresult.kind = "returned" /\ wcall.track = "empty"
    /\ AddTwdEnds([kind |-> "IndexError", twd |-> 0, warned |-> FALSE])

\* bom_twd after get_wind_data
MainBomTwd ==
    /\ mode = "main" /\ main_pc = "add_twd"
    /\ \/ BomTwdFill \/ BomTwdEmpty \/ BomTwdIndexError \/ AddTwdRaise

\* the exception of add_twd is caught nowhere
MainAddTwdRaise ==
    /\ mode = "main" /\ main_pc = "add_twd"
    /\ wind_pc = "ready" /\ twd_out.kind # "bom"
    /\ main_pc' = "error"
    /\ main_err' = twd_out.kind
    /\ UNCHANGED <<mode, vkxVars, gpxVars, parseVars, manVars, detectVars, windVars,
                   eulerVars, main_cols>>

\* add_twd returns the df of parse with twd and tws assigned by bom_twd
MainAddTwdReturn ==
    /\ mode = "main" /\ main_pc = "add_twd"
    /\ wind_pc = "ready" /\ twd_out.kind = "bom"
    /\ main_cols' = df[1].columns \cup bom_twd_adds
    /\ main_pc' = "manoeuvres"
    /\ UNCHANGED <<mode, vkxVars, gpxVars, parseVars, manVars, detectVars, windVars,
                   eulerVars, main_err>>

\* df_man = mano.manoeuvres(log, df): df.apply(..., axis=1) evaluates
\* x["heading"] and x["true_wind_angle"] on the first row, a KeyError when the
\* row has no such label
MainManoeuvres ==
    /\ mode = "main" /\ main_pc = "manoeuvres"
    /\ IF manoeuvres_reads \subseteq main_cols
       THEN /\ main_cols' = main_cols \cup manoeuvres_adds
            /\ main_pc' = "done"
            /\ UNCHANGED main_err
       ELSE /\ main_pc' = "error"
            /\ main_err' = "KeyError"
            /\ UNCHANGED main_cols
    /\ UNCHANGED <<mode, vkxVars, gpxVars, parseVars, manVars, detectVars, windVars,
                   eulerVars>>

NextMain ==
    \/ MainParse \/ MainParseRaise
    \/ MainCallAddTwd \/ MainGetWindData \/ MainBomTwd
    \/ MainAddTwdRaise \/ MainAddTwdReturn
    \/ MainManoeuvres

SpecMain == InitMain /\ [][NextMain]_vars

\* the columns of the output table: UTC, lat, lon, sog, cog, hdg, twd, the true
\* wind angle, tack, point of sail and the manoeuvre flags
OutputColumns ==
    {"UTC", "lat", "lon", "sog", "cog", "hdg", "twd",
     "rel_heading", "tack", "PoS", "tacks", "gybe", "roundup", "bearaway"}

\* C21 (as claimed): for a .vkx and for a .gpx input of which parse and add_twd
\* have returned the table, manoeuvres finds the columns it reads in it, and
\* main gets the table with the output columns.
C21_PipelineCompletes ==
    (mode = "main" /\ twd_out.kind = "bom") =>
        /\ main_pc = "manoeuvres" => manoeuvres_reads \subseteq main_cols
        /\ main_pc # "error"
        /\ main_pc = "done" => OutputColumns \subseteq main_cols

\* ------------------------------------------------------------------------
\* The whole model
\* ------------------------------------------------------------------------
Init ==
    \/ InitVkx \/ InitGpx \/ InitParse \/ InitMan \/ InitDetect \/ InitInterp \/ InitFilter
    \/ InitCache \/ InitEuler \/ InitMain

Next ==
    \/ NextVkx \/ (mode = "gpx" /\ NextGpx) \/ NextParse \/ NextMan \/ NextDetect
    \/ NextInterp \/ NextFilter \/ NextCache \/ NextEuler \/ NextMain

Spec == Init /\ [][Next]_vars

====
